---- MODULE Spec2Model ----
(***************************************************************************)
(* joppy, server API client (joppy/server_api.py): the synchronisation     *)
(* lock protocol of ApiBase against the lock store of a Joplin server.     *)
(*                                                                         *)
(* Client instances (ServerApi objects) run one library call at a time;    *)
(* a call is a sequence of HTTP requests, and the requests of different    *)
(* instances interleave at the store.  One step of an instance is one HTTP *)
(* request together with the local code that runs up to the next request.  *)
(* Time is counted in units of 60 seconds.                                 *)
(***************************************************************************)
EXTENDS Integers, Sequences, FiniteSets, TLC

VARIABLES
    now,                \* the clock, datetime.utcnow(), in units of 60 s
    locks,              \* the lock records held by the store (/api/locks)
    client_id,          \* ApiBase.client_id of every instance
    current_sync_lock,  \* ApiBase.current_sync_lock of every instance
    pc,                 \* position of every instance inside its library call
    frame,              \* the running call of every instance: caller, loop state, log
    depth,              \* number of sync_lock() bodies the instance is inside
    last,               \* the step taken last: who, what, outcome, state before it
    items,              \* the items held by the store (/api/items/root:/<name>)
    calc                \* the function application under study: function, argument, result

vars == <<now, locks, client_id, current_sync_lock, pc, frame, depth, last, items, calc>>

\* the state outside the lock protocol
data == <<items, calc>>

----------------------------------------------------------------------------
(* Bounds of the model *)

MaxTime == 4        \* the clock stops here
MaxTries == 2       \* largest `tries` a caller passes to _acquire_sync_lock
MaxDepth == 2       \* deepest nesting of sync_lock() bodies on one instance

(* Program constants *)

LockTtl == 3                    \* timedelta(seconds=60 * 3)
LockAutoRefreshInterval == 1    \* timedelta(seconds=60)

LockTypeNone == 0
LockTypeSync == 1
LockTypeExclusive == 2

LockClientTypeDesktop == 1
LockClientTypeMobile == 2
LockClientTypeCli == 3

Inst == {"a", "b"}              \* ServerApi instances
ClientIds == {"X", "Y"}         \* values of client_id
OtherClient == "E"              \* client id of a client that is not an instance

NoLock == [type |-> LockTypeNone, clientId |-> "", clientType |-> 0, updatedTime |-> 0]

----------------------------------------------------------------------------
(* Paths: a path is the sequence of the pieces it is formatted from. *)

IntStr(n) == CASE n = 0 -> "0" [] n = 1 -> "1" [] n = 2 -> "2" [] n = 3 -> "3"

PathLogin == <<"/login">>
PathLocks == <<"/api/locks">>
PathLock(lock_type, client_type, cid) ==
    <<"/api/locks", "/", IntStr(lock_type), "_", IntStr(client_type), "_", cid>>
PathInfoJson == <<"/api/items/root:/", "info.json", ":/content">>
PathVersionTxt == <<"/api/items/root:/", ".sync/version.txt", ":/content">>
PathChildren == <<"/api/items/root:/", ":/children">>
PathItem == <<"/api/items/root:/", "0e8d", ".md", ":/content">>
\* get_resource_file(id_)
PathResourceFile(id_) == <<"/api/items/root:/", ".resource/", id_, ":/content">>

StartsWith(path, prefix) ==
    /\ Len(path) >= Len(prefix)
    /\ SubSeq(path, 1, Len(prefix)) = prefix

Contains(path, piece) == \E k \in 1..Len(path) : path[k] = piece

\* ApiBase._request, the condition of the bypass
Exempt(path) ==
    \/ path = <<"/login">>
    \/ StartsWith(path, <<"/api/locks">>)
    \/ Contains(path, "info.json")
    \/ Contains(path, ".sync/version.txt")

\* The requests a caller issues through get/post/put/delete
CallerRequests ==
    { [method |-> "post", path |-> PathLogin],
      [method |-> "get",  path |-> PathInfoJson],
      [method |-> "get",  path |-> PathVersionTxt],
      [method |-> "get",  path |-> PathChildren],
      [method |-> "put",  path |-> PathItem],
      [method |-> "get",  path |-> PathResourceFile("0e8d")],
      [method |-> "get",  path |-> PathResourceFile("info.json")] }

----------------------------------------------------------------------------
(* The lock store *)

Key(l) == <<l.type, l.clientType, l.clientId>>

MkLock(lock_type, client_type, cid, t) ==
    [type |-> lock_type, clientId |-> cid, clientType |-> client_type, updatedTime |-> t]

\* POST /api/locks: the record of this key is created or re-written
StorePost(ls, lock_type, client_type, cid, t) ==
    {l \in ls : Key(l) # <<lock_type, client_type, cid>>}
        \cup {MkLock(lock_type, client_type, cid, t)}

\* DELETE /api/locks/...: the server removes nothing
StoreDeleteNothing(ls, path) == ls

\* DELETE /api/locks/<type>_<clientType>_<clientId>: the record the path names, if
\* there is one, is removed
StoreDelete(ls, path) ==
    {l \in ls : PathLock(l.type, l.clientType, l.clientId) # path}

----------------------------------------------------------------------------
(* ApiBase: the pure parts *)

\* _is_lock_active
IsLockActiveInclusive(updated_time, t) == updated_time + LockTtl >= t

IsLockActive(updated_time, t) == updated_time + LockTtl > t

\* _acquire_sync_lock.is_locked, on the listing ls
IsLockedAnySync(ls, check_lock_types, cid, t) ==
    \E l \in ls :
        /\ l.type \in check_lock_types
        /\ IsLockActive(l.updatedTime, t)

\* is_locked without the test of _is_lock_active
IsLockedIgnoringTtl(ls, check_lock_types, cid, t) ==
    \E l \in ls :
        /\ l.type \in check_lock_types
        /\ \/ l.type = LockTypeExclusive
           \/ l.type = LockTypeSync /\ l.clientId = cid

IsLockedExclusiveOnly(ls, check_lock_types, cid, t) ==
    \E l \in ls :
        /\ l.type \in check_lock_types
        /\ IsLockActive(l.updatedTime, t)
        /\ l.type = LockTypeExclusive

IsLockedSyncOnly(ls, check_lock_types, cid, t) ==
    \E l \in ls :
        /\ l.type \in check_lock_types
        /\ IsLockActive(l.updatedTime, t)
        /\ l.type = LockTypeSync /\ l.clientId = cid

IsLocked(ls, check_lock_types, cid, t) ==
    \E l \in ls :
        /\ l.type \in check_lock_types
        /\ IsLockActive(l.updatedTime, t)
        /\ \/ l.type = LockTypeExclusive
           \/ l.type = LockTypeSync /\ l.clientId = cid

\* _delete_own_lock: the path of _delete_lock(SYNC, DESKTOP, self.client_id)
OwnLockPathIdOnly(cid) == <<"/api/locks", "/", cid>>

OwnLockPath(cid) == PathLock(LockTypeSync, LockClientTypeDesktop, cid)

\* _request, the guard: what it decides for a request of path `path`
\*   "send"      the request is sent as it is
\*   "no_lock"   LockError("No sync lock. ...")
\*   "expired"   LockError("Sync lock expired. ...")
\*   "refresh"   the lock is re-written first (_add_lock), then the request is sent
GuardNoLockPasses(lock, path, t) ==
    IF Exempt(path) \/ lock = NoLock THEN "send"
    ELSE IF ~IsLockActive(lock.updatedTime, t) THEN "expired"
    ELSE IF lock.updatedTime + LockAutoRefreshInterval < t THEN "refresh"
    ELSE "send"

GuardEagerRefresh(lock, path, t) ==
    IF Exempt(path) THEN "send"
    ELSE IF lock = NoLock THEN "no_lock"
    ELSE IF ~IsLockActive(lock.updatedTime, t) THEN "expired"
    ELSE IF lock.updatedTime + LockAutoRefreshInterval <= t THEN "refresh"
    ELSE "send"

GuardNoRefresh(lock, path, t) ==
    IF Exempt(path) THEN "send"
    ELSE IF lock = NoLock THEN "no_lock"
    ELSE IF ~IsLockActive(lock.updatedTime, t) THEN "expired"
    ELSE "send"

GuardDeniesOld(lock, path, t) ==
    IF Exempt(path) THEN "send"
    ELSE IF lock = NoLock THEN "no_lock"
    ELSE IF lock.updatedTime + LockAutoRefreshInterval < t THEN "expired"
    ELSE "send"

GuardLateRefresh(lock, path, t) ==
    IF Exempt(path) THEN "send"
    ELSE IF lock = NoLock THEN "no_lock"
    ELSE IF ~IsLockActive(lock.updatedTime, t) THEN "expired"
    ELSE IF lock.updatedTime + LockAutoRefreshInterval + 1 < t THEN "refresh"
    ELSE "send"

GuardRefreshExpired(lock, path, t) ==
    IF Exempt(path) THEN "send"
    ELSE IF lock = NoLock THEN "no_lock"
    ELSE IF lock.updatedTime + LockAutoRefreshInterval < t THEN "refresh"
    ELSE "send"

Guard(lock, path, t) ==
    IF Exempt(path) THEN "send"
    ELSE IF lock = NoLock THEN "no_lock"
    ELSE IF ~IsLockActive(lock.updatedTime, t) THEN "expired"
    ELSE IF lock.updatedTime + LockAutoRefreshInterval < t THEN "refresh"
    ELSE "send"

GuardError(g) == IF g = "no_lock" THEN "LockError_no_lock" ELSE "LockError_expired"

----------------------------------------------------------------------------
(* Bookkeeping *)

Http(method, path, ok) == [method |-> method, path |-> path, ok |-> ok]

\* created counts the locks the running call has created, slept lists the
\* arguments of its calls of time.sleep
NoFrame == [call |-> "none", tries |-> 0, delay |-> 0, method |-> "", path |-> <<>>,
            created |-> 0, slept |-> <<>>]

\* the record of a step of instance i: the call `op` it belongs to, the place
\* `at` in the call, the outcome of the call so far ("pending" while it runs on),
\* the HTTP requests sent in the step, and the state before the step
Step(i, op, at, path, outcome, http) ==
    [inst |-> i, op |-> op, at |-> at, path |-> path, outcome |-> outcome,
     http |-> http, pre_lock |-> current_sync_lock[i], pre_locks |-> locks,
     pre_depth |-> depth[i]]

NoStep(op) ==
    [inst |-> "", op |-> op, at |-> "", path |-> <<>>, outcome |-> "", http |-> <<>>,
     pre_lock |-> NoLock, pre_locks |-> {}, pre_depth |-> 0]

\* no item in the store, no function applied
NoItems == <<>>
NoCalc == [fn |-> "none"]

Init ==
    /\ now = 0
    /\ locks = {}
    /\ client_id = [i \in Inst |-> IF i = "a" THEN "X" ELSE "Y"]
    /\ current_sync_lock = [i \in Inst |-> NoLock]
    /\ pc = [i \in Inst |-> "idle"]
    /\ frame = [i \in Inst |-> NoFrame]
    /\ depth = [i \in Inst |-> 0]
    /\ last = NoStep("init")
    /\ items = NoItems
    /\ calc = NoCalc

----------------------------------------------------------------------------
(* The environment: time, and a client that is not an instance of ApiBase *)

Tick ==
    /\ now < MaxTime
    /\ now' = now + 1
    /\ last' = NoStep("tick")
    /\ UNCHANGED <<locks, client_id, current_sync_lock, pc, frame, depth, data>>

\* another client writes (or re-writes) the lock record of key k
OtherPost(k) ==
    /\ locks' = StorePost(locks, k[1], k[2], k[3], now)
    /\ locks' # locks
    /\ last' = NoStep("other")
    /\ UNCHANGED <<now, client_id, current_sync_lock, pc, frame, depth, data>>

\* another client removes the lock record of key k
OtherDelete(k) ==
    /\ locks' = StoreDelete(locks, PathLock(k[1], k[2], k[3]))
    /\ locks' # locks
    /\ last' = NoStep("other")
    /\ UNCHANGED <<now, client_id, current_sync_lock, pc, frame, depth, data>>

----------------------------------------------------------------------------
(* ApiBase._request, called by the caller through get/post/put/delete *)

\* the guard denies the request, or lets it through and it is sent
Request(i, r, ok) ==
    /\ pc[i] = "idle"
    /\ LET g == Guard(current_sync_lock[i], r.path, now) IN
       CASE g \in {"no_lock", "expired"} ->
              /\ last' = Step(i, "request", "guard", r.path, GuardError(g), <<>>)
              /\ UNCHANGED <<locks, current_sync_lock, pc, frame>>
         [] g = "send" ->
              /\ last' = Step(i, "request", "send", r.path,
                              IF ok THEN "ok" ELSE "HTTPError",
                              <<Http(r.method, r.path, ok)>>)
              /\ UNCHANGED <<locks, current_sync_lock, pc, frame>>
         [] g = "refresh" ->
              \* self.current_sync_lock = self._add_lock()
              IF ok
              THEN /\ locks' = StorePost(locks, LockTypeSync, LockClientTypeDesktop,
                                         client_id[i], now)
                   /\ current_sync_lock' = [current_sync_lock EXCEPT ![i] =
                          MkLock(LockTypeSync, LockClientTypeDesktop, client_id[i], now)]
                   /\ pc' = [pc EXCEPT ![i] = "req_send"]
                   /\ frame' = [frame EXCEPT ![i] =
                          [NoFrame EXCEPT !.call = "request", !.method = r.method,
                                          !.path = r.path]]
                   /\ last' = Step(i, "request", "refresh", r.path, "pending",
                                   <<Http("post", PathLocks, TRUE)>>)
              ELSE /\ last' = Step(i, "request", "refresh", r.path, "HTTPError",
                                   <<Http("post", PathLocks, FALSE)>>)
                   /\ UNCHANGED <<locks, current_sync_lock, pc, frame>>
    /\ UNCHANGED <<now, client_id, depth, data>>

\* the request is sent after the lock was refreshed
RequestSend(i, ok) ==
    /\ pc[i] = "req_send"
    /\ pc' = [pc EXCEPT ![i] = "idle"]
    /\ frame' = [frame EXCEPT ![i] = NoFrame]
    /\ last' = Step(i, "request", "send_after_refresh", frame[i].path,
                    IF ok THEN "ok" ELSE "HTTPError",
                    <<Http(frame[i].method, frame[i].path, ok)>>)
    /\ UNCHANGED <<now, locks, client_id, current_sync_lock, depth, data>>

----------------------------------------------------------------------------
(* ApiBase._acquire_sync_lock and ApiBase.sync_lock *)

BothLockTypes == {LockTypeSync, LockTypeExclusive}

Denied(g) == g \in {"no_lock", "expired"}

NewFrame(call, tries) == [NoFrame EXCEPT !.call = call, !.tries = tries]

\* the running call of i ends with an exception
Raise(i, fr, at, outcome, http) ==
    /\ pc' = [pc EXCEPT ![i] = "idle"]
    /\ frame' = [frame EXCEPT ![i] = NoFrame]
    /\ last' = Step(i, fr.call, at, <<>>, outcome, http)
    /\ UNCHANGED depth

\* _acquire_sync_lock returns; in sync_lock() the check of current_sync_lock
\* follows, and then the yield
Return(i, fr, at, lock_after, http) ==
    /\ pc' = [pc EXCEPT ![i] = "idle"]
    /\ frame' = [frame EXCEPT ![i] = NoFrame]
    /\ IF fr.call = "sync_lock"
       THEN IF lock_after = NoLock
            THEN /\ last' = Step(i, fr.call, at, <<>>, "LockError_acquire", http)
                 /\ UNCHANGED depth
            ELSE /\ depth' = [depth EXCEPT ![i] = @ + 1]
                 /\ last' = Step(i, fr.call, at, <<>>, "entered", http)
       ELSE /\ last' = Step(i, fr.call, at, <<>>, "returned", http)
            /\ UNCHANGED depth

\* the end of one pass of a loop that makes one pass more than `tries`
EndAttemptOneMore(i, fr, at, lock_after, http) ==
    IF fr.delay < fr.tries
    THEN /\ pc' = [pc EXCEPT ![i] = "acq_check"]
         /\ frame' = [frame EXCEPT ![i] = [fr EXCEPT !.delay = @ + 1,
                                                     !.slept = Append(@, fr.delay)]]
         /\ last' = Step(i, fr.call, at, <<>>, "pending", http)
         /\ UNCHANGED depth
    ELSE Return(i, fr, at, lock_after, http)

\* the end of one pass of `for delay in range(tries)`: time.sleep(delay), then the
\* next pass, or the end of the loop
EndAttempt(i, fr, at, lock_after, http) ==
    IF fr.delay + 1 < fr.tries
    THEN /\ pc' = [pc EXCEPT ![i] = "acq_check"]
         /\ frame' = [frame EXCEPT ![i] = [fr EXCEPT !.delay = @ + 1,
                                                     !.slept = Append(@, fr.delay)]]
         /\ last' = Step(i, fr.call, at, <<>>, "pending", http)
         /\ UNCHANGED depth
    ELSE Return(i, fr, at, lock_after, http)

\* `if not is_locked():` the listing of the locks and what follows from it
Attempt(i, fr, ok) ==
    LET g == Guard(current_sync_lock[i], PathLocks, now)
        http == <<Http("get", PathLocks, ok)>>
    IN  /\ IF Denied(g) THEN Raise(i, fr, "is_locked", GuardError(g), <<>>)
           ELSE IF ~ok THEN Raise(i, fr, "is_locked", "HTTPError", http)
           ELSE IF IsLocked(locks, BothLockTypes, client_id[i], now)
                THEN EndAttempt(i, fr, "is_locked", current_sync_lock[i], http)
                ELSE /\ pc' = [pc EXCEPT ![i] = "acq_add"]
                     /\ frame' = [frame EXCEPT ![i] = fr]
                     /\ last' = Step(i, fr.call, "is_locked", <<>>, "pending", http)
                     /\ UNCHANGED depth
        /\ UNCHANGED <<now, locks, client_id, current_sync_lock, data>>

\* with api.sync_lock(): the call, up to the first listing
SyncLock(i, ok) ==
    /\ pc[i] = "idle"
    /\ depth[i] < MaxDepth
    /\ Attempt(i, NewFrame("sync_lock", 1), ok)

\* api._acquire_sync_lock(tries): the call, up to the first listing
AcquireSyncLock(i, tries, ok) ==
    /\ pc[i] = "idle"
    /\ Attempt(i, NewFrame("acquire", tries), ok)

\* a later pass of the loop
NextAttempt(i, ok) ==
    /\ pc[i] = "acq_check"
    /\ Attempt(i, frame[i], ok)

\* self.current_sync_lock = self._add_lock()
AddLock(i, ok) ==
    /\ pc[i] = "acq_add"
    /\ LET g == Guard(current_sync_lock[i], PathLocks, now)
           fr == frame[i]
           http == <<Http("post", PathLocks, ok)>>
       IN  IF Denied(g) \/ ~ok
           THEN /\ IF Denied(g) THEN Raise(i, fr, "add_lock", GuardError(g), <<>>)
                   ELSE Raise(i, fr, "add_lock", "HTTPError", http)
                /\ UNCHANGED <<locks, current_sync_lock>>
           ELSE /\ locks' = StorePost(locks, LockTypeSync, LockClientTypeDesktop,
                                      client_id[i], now)
                /\ current_sync_lock' = [current_sync_lock EXCEPT ![i] =
                       MkLock(LockTypeSync, LockClientTypeDesktop, client_id[i], now)]
                /\ pc' = [pc EXCEPT ![i] = "acq_recheck"]
                /\ frame' = [frame EXCEPT ![i] = [fr EXCEPT !.created = @ + 1]]
                /\ last' = Step(i, fr.call, "add_lock", <<>>, "pending", http)
                /\ UNCHANGED depth
    /\ UNCHANGED <<now, client_id, data>>

\* `if is_locked(check_lock_types=(dt.LockType.EXCLUSIVE,)):` and, when it is,
\* the first statement of _delete_own_lock
Recheck(i, ok) ==
    /\ pc[i] = "acq_recheck"
    /\ LET g == Guard(current_sync_lock[i], PathLocks, now)
           fr == frame[i]
           http == <<Http("get", PathLocks, ok)>>
       IN  IF Denied(g) \/ ~ok
           THEN /\ IF Denied(g) THEN Raise(i, fr, "recheck", GuardError(g), <<>>)
                   ELSE Raise(i, fr, "recheck", "HTTPError", http)
                /\ UNCHANGED current_sync_lock
           ELSE IF IsLocked(locks, {LockTypeExclusive}, client_id[i], now)
                THEN /\ current_sync_lock' = [current_sync_lock EXCEPT ![i] = NoLock]
                     /\ pc' = [pc EXCEPT ![i] = "acq_delete"]
                     /\ last' = Step(i, fr.call, "recheck", <<>>, "pending", http)
                     /\ UNCHANGED <<frame, depth>>
                ELSE /\ Return(i, fr, "recheck", current_sync_lock[i], http)
                     /\ UNCHANGED current_sync_lock
    /\ UNCHANGED <<now, locks, client_id, data>>

\* _delete_own_lock inside the loop: the delete request, then the end of the pass
DeleteAfterRecheck(i, ok) ==
    /\ pc[i] = "acq_delete"
    /\ LET path == OwnLockPath(client_id[i])
           g == Guard(current_sync_lock[i], path, now)
           fr == frame[i]
           http == <<Http("delete", path, ok)>>
       IN  IF Denied(g) \/ ~ok
           THEN /\ IF Denied(g) THEN Raise(i, fr, "delete", GuardError(g), <<>>)
                   ELSE Raise(i, fr, "delete", "HTTPError", http)
                /\ UNCHANGED locks
           ELSE /\ locks' = StoreDelete(locks, path)
                /\ EndAttempt(i, fr, "delete", current_sync_lock[i], http)
    /\ UNCHANGED <<now, client_id, current_sync_lock, data>>

\* _delete_own_lock clearing the handle only after the delete request succeeded
DeleteOwnClearLast(i, op, ok, depth_after) ==
    LET path == OwnLockPath(client_id[i])
        g == Guard(NoLock, path, now)
    IN  /\ current_sync_lock' = [current_sync_lock EXCEPT ![i] = IF ok THEN NoLock ELSE @]
        /\ depth' = [depth EXCEPT ![i] = depth_after]
        /\ IF Denied(g)
           THEN /\ last' = Step(i, op, "delete", path, GuardError(g), <<>>)
                /\ UNCHANGED locks
           ELSE /\ last' = Step(i, op, "delete", path,
                                IF ok THEN "ok" ELSE "HTTPError",
                                <<Http("delete", path, ok)>>)
                /\ locks' = IF ok THEN StoreDelete(locks, path) ELSE locks
        /\ UNCHANGED <<now, client_id, pc, frame, data>>

\* _delete_own_lock: the handle is cleared, then the delete request is sent
DeleteOwn(i, op, ok, depth_after) ==
    LET path == OwnLockPath(client_id[i])
        g == Guard(NoLock, path, now)
    IN  /\ current_sync_lock' = [current_sync_lock EXCEPT ![i] = NoLock]
        /\ depth' = [depth EXCEPT ![i] = depth_after]
        /\ IF Denied(g)
           THEN /\ last' = Step(i, op, "delete", path, GuardError(g), <<>>)
                /\ UNCHANGED locks
           ELSE /\ last' = Step(i, op, "delete", path,
                                IF ok THEN "ok" ELSE "HTTPError",
                                <<Http("delete", path, ok)>>)
                /\ locks' = IF ok THEN StoreDelete(locks, path) ELSE locks
        /\ UNCHANGED <<now, client_id, pc, frame, data>>

\* api._delete_own_lock(), called by the caller
DeleteOwnLock(i, ok) ==
    /\ pc[i] = "idle"
    /\ DeleteOwn(i, "delete_own_lock", ok, depth[i])

\* the body of `with api.sync_lock():` ends normally: the code after the yield
SyncLockExit(i, ok) ==
    /\ pc[i] = "idle"
    /\ depth[i] > 0
    /\ DeleteOwn(i, "sync_lock_exit", ok, depth[i] - 1)

\* the body of `with api.sync_lock():` raises: the exception is thrown into the
\* generator at the yield and leaves it there
SyncLockBodyRaises(i) ==
    /\ pc[i] = "idle"
    /\ depth[i] > 0
    /\ depth' = [depth EXCEPT ![i] = @ - 1]
    /\ last' = Step(i, "sync_lock_exit", "raise", <<>>, "raised", <<>>)
    /\ UNCHANGED <<now, locks, client_id, current_sync_lock, pc, frame, data>>

----------------------------------------------------------------------------
(* Specifications *)

\* the calls of `with api.sync_lock():` on instance i
Session(i) ==
    \/ \E ok \in BOOLEAN : SyncLock(i, ok)
    \/ \E ok \in BOOLEAN : AddLock(i, ok)
    \/ \E ok \in BOOLEAN : Recheck(i, ok)
    \/ \E ok \in BOOLEAN : DeleteAfterRecheck(i, ok)
    \/ \E ok \in BOOLEAN : SyncLockExit(i, ok)
    \/ SyncLockBodyRaises(i)

\* the calls a caller makes on the instance itself
Direct(i) ==
    \/ \E r \in CallerRequests, ok \in BOOLEAN : Request(i, r, ok)
    \/ \E ok \in BOOLEAN : RequestSend(i, ok)
    \/ \E tries \in 1..MaxTries, ok \in BOOLEAN : AcquireSyncLock(i, tries, ok)
    \/ \E ok \in BOOLEAN : NextAttempt(i, ok)
    \/ \E ok \in BOOLEAN : DeleteOwnLock(i, ok)

\* Spec: one instance, every call of it, and other clients that write and remove
\* an EXCLUSIVE lock and a SYNC lock of the instance's own client_id
ExclusiveKey == <<LockTypeExclusive, LockClientTypeMobile, OtherClient>>
SameIdKey == <<LockTypeSync, LockClientTypeDesktop, "X">>

Next ==
    \/ Tick
    \/ \E k \in {ExclusiveKey, SameIdKey} : OtherPost(k)
    \/ \E k \in {ExclusiveKey, SameIdKey} : OtherDelete(k)
    \/ Session("a")
    \/ Direct("a")

Spec == Init /\ [][Next]_vars

\* SpecTwo: two instances, with equal or with different client_id, that open and
\* close sessions concurrently, and another client's EXCLUSIVE lock
InitTwo ==
    /\ now = 0
    /\ locks = {}
    /\ client_id \in {f \in [Inst -> ClientIds] : f["a"] = "X"}
    /\ current_sync_lock = [i \in Inst |-> NoLock]
    /\ pc = [i \in Inst |-> "idle"]
    /\ frame = [i \in Inst |-> NoFrame]
    /\ depth = [i \in Inst |-> 0]
    /\ last = NoStep("init")
    /\ items = NoItems
    /\ calc = NoCalc

NextTwo ==
    \/ Tick
    \/ OtherPost(ExclusiveKey)
    \/ OtherDelete(ExclusiveKey)
    \/ \E i \in Inst : Session(i)

SpecTwo == InitTwo /\ [][NextTwo]_vars

----------------------------------------------------------------------------
(* Properties.  `last` describes the step that led to the state: the state    *)
(* before it is in its pre_ fields, the state after it is the state itself.   *)

OwnKey(i) == <<LockTypeSync, LockClientTypeDesktop, client_id[i]>>
OwnRecords(i, ls) == {l \in ls : Key(l) = OwnKey(i)}
ExclusiveActive(ls) ==
    \E l \in ls : l.type = LockTypeExclusive /\ l.updatedTime + LockTtl > now

\* the step is the first one of a call of _request with a guarded path
GuardedRequestMade ==
    /\ last.op = "request"
    /\ last.at # "send_after_refresh"
    /\ last.path # <<"/login">>
    /\ last.path[1] # "/api/locks"
    /\ \A k \in 1..Len(last.path) : last.path[k] \notin {"info.json", ".sync/version.txt"}

NoLockState == current_sync_lock[last.inst] = last.pre_lock /\ locks = last.pre_locks

\* C1: a request of a guarded path made while current_sync_lock is None raises
\* LockError("No sync lock"), sends no HTTP request, and leaves the store and the
\* lock state of the client as they were.
C1_NoLockDenied ==
    (GuardedRequestMade /\ last.pre_lock = NoLock) =>
        /\ last.outcome = "LockError_no_lock"
        /\ last.http = <<>>
        /\ NoLockState
        /\ pc[last.inst] = "idle"

C1_Witness ==
    /\ GuardedRequestMade
    /\ last.pre_lock = NoLock
    /\ last.outcome = "LockError_no_lock"
    /\ last.path = PathChildren

\* C2: a request of a guarded path made while the held handle is past its TTL
\* (updatedTime + lock_ttl <= now) raises LockError("Sync lock expired"), is not
\* sent, and re-writes no lock; this holds for reads as for writes.
C2_ExpiredDenied ==
    (/\ GuardedRequestMade
     /\ last.pre_lock # NoLock
     /\ last.pre_lock.updatedTime + LockTtl <= now) =>
        /\ last.outcome = "LockError_expired"
        /\ last.http = <<>>
        /\ NoLockState
        /\ pc[last.inst] = "idle"

C2_Witness ==
    /\ GuardedRequestMade
    /\ last.path = PathChildren
    /\ last.pre_lock # NoLock
    /\ last.pre_lock.updatedTime + LockTtl = now
    /\ last.pre_lock \in locks
    /\ last.outcome = "LockError_expired"

\* C10: a request of a guarded path made while the held lock is not past the
\* auto-refresh interval (updatedTime + interval >= now) is sent without any lock
\* write: the only HTTP request is the request itself, and the lock records of the
\* store and the handle are the same after it.
C10_NoRefreshBeforeInterval ==
    (/\ GuardedRequestMade
     /\ last.pre_lock # NoLock
     /\ last.pre_lock.updatedTime + LockAutoRefreshInterval >= now) =>
        /\ last.at = "send"
        /\ Len(last.http) = 1
        /\ last.http[1].path = last.path
        /\ NoLockState
        /\ Cardinality(OwnRecords(last.inst, locks)) <= 1
        /\ pc[last.inst] = "idle"

C10_Witness ==
    /\ GuardedRequestMade
    /\ last.pre_lock # NoLock
    /\ last.pre_lock.updatedTime + LockAutoRefreshInterval = now
    /\ last.outcome = "ok"
    /\ OwnRecords(last.inst, locks) = {last.pre_lock}

\* the listing of a step saw an active SYNC lock of the instance's own client_id
OwnSyncActiveBefore ==
    \E l \in last.pre_locks :
        /\ Key(l) = OwnKey(last.inst)
        /\ l.updatedTime + LockTtl > now

\* the instance holds a lock that is valid in the store: its handle is a record of
\* the store and is within its TTL
HoldsValidLock(i) ==
    /\ current_sync_lock[i] # NoLock
    /\ current_sync_lock[i] \in locks
    /\ current_sync_lock[i].updatedTime + LockTtl > now

\* C3: when the listing of sync_lock() shows an active SYNC lock of the caller's
\* own client_id, sync_lock() raises LockError and its body is not entered.
C3_SameIdRefused ==
    (/\ last.op = "sync_lock"
     /\ last.at = "is_locked"
     /\ last.http = <<Http("get", PathLocks, TRUE)>>
     /\ OwnSyncActiveBefore) =>
        /\ last.outcome = "LockError_acquire"
        /\ depth[last.inst] = last.pre_depth

\* C5: no call of _acquire_sync_lock returns with current_sync_lock set and with
\* the client's SYNC record in the store while an active EXCLUSIVE lock is in the
\* store.
C5_NoSyncUnderExclusive ==
    (/\ last.op \in {"sync_lock", "acquire"}
     /\ last.outcome \in {"returned", "entered", "LockError_acquire"}
     /\ ExclusiveActive(locks)) =>
        ~(/\ current_sync_lock[last.inst] # NoLock
          /\ OwnRecords(last.inst, locks) # {})

\* C7: when the acquisition of sync_lock() ends without having created a lock
\* (its last listing reported the target locked), the body is entered only with a
\* lock the client validly holds in the store; otherwise LockError is raised.
C7_ExhaustedObserved ==
    (/\ last.op = "sync_lock"
     /\ last.at = "is_locked"
     /\ last.outcome = "entered") =>
        HoldsValidLock(last.inst)

\* C8: on every exit of the body of sync_lock(), normal or by an exception, the
\* handle is cleared, and the client's lock record is gone unless the delete
\* request itself failed.
C8_ReleasedOnEveryExit ==
    (/\ last.op = "sync_lock_exit"
     /\ last.outcome # "HTTPError") =>
        /\ current_sync_lock[last.inst] = NoLock
        /\ OwnRecords(last.inst, locks) = {}

\* C9: _delete_own_lock sends one delete request, for the record keyed (SYNC,
\* DESKTOP, client_id), and sets current_sync_lock to None; when the request
\* succeeds that record is gone, and every other record of the store is as before.
C9_ReleaseDeletesOwnOnly ==
    (/\ last.op \in {"sync_lock_exit", "delete_own_lock"}
     /\ last.at = "delete") =>
        /\ current_sync_lock[last.inst] = NoLock
        /\ Len(last.http) = 1
        /\ last.http[1].method = "delete"
        /\ last.http[1].path = <<"/api/locks", "/", "1", "_", "1", "_", client_id[last.inst]>>
        /\ locks = IF last.http[1].ok
                   THEN {l \in last.pre_locks : Key(l) # OwnKey(last.inst)}
                   ELSE last.pre_locks

C9_Witness ==
    /\ last.op = "sync_lock_exit"
    /\ last.at = "delete"
    /\ last.outcome = "ok"
    /\ OwnRecords(last.inst, last.pre_locks) # {}
    /\ \E l \in locks : l.type = LockTypeSync /\ l.clientId # client_id[last.inst]
    /\ \E l \in locks : l.type = LockTypeExclusive

\* C4 as stated: in the steady state (no acquisition running) two clients never
\* both hold an active SYNC lock.
C4_NeverTwoHolders ==
    \A i, j \in Inst :
        (i # j /\ pc[i] = "idle" /\ pc[j] = "idle") =>
            ~(HoldsValidLock(i) /\ HoldsValidLock(j))

\* C4 as amended: SYNC locks of different clients coexist; what the re-check
\* resolves is the race against an EXCLUSIVE lock.  An acquisition that created its
\* lock returns holding it only if its re-check listed no active EXCLUSIVE lock;
\* when the re-check lists one, the handle is cleared and the delete request that
\* follows removes the record the acquisition created.
C4_RecheckResolvesExclusive ==
    /\ (/\ last.op \in {"sync_lock", "acquire"}
        /\ last.at = "recheck"
        /\ last.outcome \in {"returned", "entered"}) =>
           ~ExclusiveActive(locks)
    /\ (/\ last.op \in {"sync_lock", "acquire"}
        /\ last.at = "recheck"
        /\ last.http = <<Http("get", PathLocks, TRUE)>>
        /\ ExclusiveActive(locks)) =>
           /\ current_sync_lock[last.inst] = NoLock
           /\ pc[last.inst] = "acq_delete"
    /\ (/\ last.op \in {"sync_lock", "acquire"}
        /\ last.at = "delete"
        /\ last.outcome # "HTTPError") =>
           /\ OwnRecords(last.inst, locks) = {}
           /\ current_sync_lock[last.inst] = NoLock

C4_Witness ==
    /\ last.op = "sync_lock"
    /\ last.at = "delete"
    /\ last.outcome = "LockError_acquire"
    /\ OwnRecords(last.inst, last.pre_locks) # {}
    /\ ExclusiveActive(locks)
    /\ \E j \in Inst : j # last.inst /\ HoldsValidLock(j) /\ depth[j] = 1

\* C6: a SYNC lock of another client_id does not block sync_lock(): when the
\* listing holds no active EXCLUSIVE lock and no active SYNC lock of the caller's
\* own client_id, the acquisition goes on to create its lock; the create adds the
\* caller's record and keeps every other record (two locks are listed inside the
\* session); the release removes the caller's record and keeps every other one.
C6_OtherIdDoesNotBlock ==
    /\ (/\ last.op = "sync_lock"
        /\ last.at = "is_locked"
        /\ last.http = <<Http("get", PathLocks, TRUE)>>
        /\ ~ExclusiveActive(last.pre_locks)
        /\ ~OwnSyncActiveBefore) =>
           /\ last.outcome = "pending"
           /\ pc[last.inst] = "acq_add"
    /\ (/\ last.op = "sync_lock"
        /\ last.at = "add_lock"
        /\ last.http = <<Http("post", PathLocks, TRUE)>>) =>
           /\ OwnRecords(last.inst, locks) = {current_sync_lock[last.inst]}
           /\ {l \in locks : Key(l) # OwnKey(last.inst)}
                = {l \in last.pre_locks : Key(l) # OwnKey(last.inst)}
    /\ (/\ last.op = "sync_lock"
        /\ last.at = "recheck"
        /\ last.http = <<Http("get", PathLocks, TRUE)>>
        /\ ~ExclusiveActive(locks)) =>
           /\ last.outcome = "entered"
           /\ depth[last.inst] = last.pre_depth + 1
           /\ locks = last.pre_locks
    /\ (/\ last.op = "sync_lock_exit"
        /\ last.outcome = "ok") =>
           locks = {l \in last.pre_locks : Key(l) # OwnKey(last.inst)}

\* B has entered its session while A, of another client_id, is in its own: the
\* store lists the two locks
C6_Witness ==
    /\ last.op = "sync_lock"
    /\ last.outcome = "entered"
    /\ last.inst = "b"
    /\ client_id["a"] # client_id["b"]
    /\ depth["a"] = 1
    /\ HoldsValidLock("a")
    /\ HoldsValidLock("b")
    /\ Cardinality(locks) = 2

\* C11: a request of a guarded path made while the held lock is still active but
\* older than the auto-refresh interval first re-writes the lock (POST /api/locks)
\* and only then is sent: after the re-write the handle carries a strictly greater
\* updatedTime, the store holds exactly one record of the client, which is the
\* handle, and the request that follows changes neither.
C11_RefreshBeforeRequest ==
    /\ (/\ GuardedRequestMade
        /\ last.pre_lock # NoLock
        /\ last.pre_lock.updatedTime + LockTtl > now
        /\ last.pre_lock.updatedTime + LockAutoRefreshInterval < now) =>
           /\ last.at = "refresh"
           /\ Len(last.http) = 1
           /\ last.http[1].method = "post"
           /\ last.http[1].path = <<"/api/locks">>
           /\ IF last.http[1].ok
              THEN /\ current_sync_lock[last.inst].updatedTime > last.pre_lock.updatedTime
                   /\ OwnRecords(last.inst, locks) = {current_sync_lock[last.inst]}
                   /\ {l \in locks : Key(l) # OwnKey(last.inst)}
                        = {l \in last.pre_locks : Key(l) # OwnKey(last.inst)}
                   /\ pc[last.inst] = "req_send"
                   /\ frame[last.inst].path = last.path
              ELSE /\ NoLockState
                   /\ last.outcome = "HTTPError"
                   /\ pc[last.inst] = "idle"
    /\ (last.op = "request" /\ last.at = "send_after_refresh") =>
           /\ Len(last.http) = 1
           /\ last.http[1].path = last.path
           /\ NoLockState
           /\ pc[last.inst] = "idle"

C11_Witness ==
    /\ GuardedRequestMade
    /\ last.at = "refresh"
    /\ last.outcome = "pending"
    /\ last.pre_lock \in last.pre_locks
    /\ last.pre_lock.updatedTime + LockAutoRefreshInterval < now
    /\ current_sync_lock[last.inst].updatedTime = now
    /\ OwnRecords(last.inst, locks) = {current_sync_lock[last.inst]}

----------------------------------------------------------------------------
(* The item store: items is a function from the names of the stored items to  *)
(* their contents.  A name is the sequence of the pieces it is formatted from. *)

NameInfoJson == <<"info.json">>
NameVersionTxt == <<".sync/version.txt">>

\* /api/items/root:/<name>:/content
ItemContentPath(name) == <<"/api/items/root:/">> \o name \o <<":/content">>

HasItem(its, name) == name \in DOMAIN its

\* PUT .../content: the item is created or overwritten
ItemPut(its, name, content) ==
    [n \in DOMAIN its \cup {name} |-> IF n = name THEN content ELSE its[n]]

\* DELETE /api/items/root:/<name>: : the item, if there is one, is removed
ItemDelete(its, name) == [n \in DOMAIN its \ {name} |-> its[n]]

\* an HTTP request with the status of its response
HttpStatus(method, path, status) ==
    [method |-> method, path |-> path, ok |-> status = 200, status |-> status]

\* the record of a step of an operation on items: as Step, with the items before
\* the step and the value the operation returned, if it returned
ItemStep(i, op, at, path, outcome, http, result) ==
    [inst |-> i, op |-> op, at |-> at, path |-> path, outcome |-> outcome,
     http |-> http, pre_lock |-> current_sync_lock[i], pre_locks |-> locks,
     pre_depth |-> depth[i], pre_items |-> items, result |-> result]

----------------------------------------------------------------------------
(* ApiBase.__init__: login, then the check of the sync target version *)

MaxVersion == 4     \* the versions a marker of the store can carry are 1..MaxVersion

\* int(response.text), int(server_info["version"]): the text of a version
ParseInt(s) ==
    CASE s = "1" -> 1 [] s = "2" -> 2 [] s = "3" -> 3 [] s = "4" -> 4 [] s = "5" -> 5

VersionText(v) ==
    CASE v = 1 -> "1" [] v = 2 -> "2" [] v = 3 -> "3" [] v = 4 -> "4" [] v = 5 -> "5"

\* sync_target_info, the descriptor written when no marker is found
SyncTargetInfoVersion2 ==
    [version |-> 2, e2ee |-> FALSE, activeMasterKeyId |-> FALSE, masterKeys |-> <<>>]

SyncTargetInfo ==
    [version |-> 3, e2ee |-> FALSE, activeMasterKeyId |-> FALSE, masterKeys |-> <<>>]

\* `if sync_version != 3: raise NotImplementedError`
SyncVersionAtLeast(sync_version) == sync_version >= 3

SyncVersionSupported(sync_version) == sync_version = 3

\* the end of __init__ once get_sync_version returned sync_version
ConstructCheck(i, at, sync_version, http) ==
    /\ items' = items
    /\ IF SyncVersionSupported(sync_version)
       THEN /\ pc' = [pc EXCEPT ![i] = "idle"]
            /\ last' = ItemStep(i, "construct", at, <<>>, "constructed", http, sync_version)
       ELSE /\ pc' = [pc EXCEPT ![i] = "failed"]
            /\ last' = ItemStep(i, "construct", at, <<>>, "NotImplementedError", http,
                                sync_version)

\* an HTTP error is taken for success and __init__ returns
ConstructSwallow(i, at, http) ==
    /\ items' = items
    /\ pc' = [pc EXCEPT ![i] = "idle"]
    /\ last' = ItemStep(i, "construct", at, <<>>, "constructed", http, "none")

\* an HTTP error leaves __init__
ConstructRaise(i, at, http) ==
    /\ items' = items
    /\ pc' = [pc EXCEPT ![i] = "failed"]
    /\ last' = ItemStep(i, "construct", at, <<>>, "HTTPError", http, "none")

\* self.post("/login", ...)
ConstructLogin(i, status) ==
    /\ pc[i] = "new"
    /\ Guard(current_sync_lock[i], PathLogin, now) = "send"
    /\ LET http == <<HttpStatus("post", PathLogin, status)>> IN
       IF status = 200
       THEN /\ pc' = [pc EXCEPT ![i] = "ctor_info"]
            /\ last' = ItemStep(i, "construct", "login", <<>>, "pending", http, "none")
            /\ items' = items
       ELSE ConstructRaise(i, "login", http)
    /\ UNCHANGED <<now, locks, client_id, current_sync_lock, frame, depth, calc>>

\* get_sync_version: self.get(".../info.json:/content"); the store answers 404 when
\* it holds no such item; `fails` is any other error response
ConstructGetInfo(i, fails) ==
    /\ pc[i] = "ctor_info"
    /\ Guard(current_sync_lock[i], PathInfoJson, now) = "send"
    /\ LET status == IF fails THEN 500
                     ELSE IF HasItem(items, NameInfoJson) THEN 200 ELSE 404
           http == <<HttpStatus("get", PathInfoJson, status)>>
       IN  CASE status = 200 ->
                  ConstructCheck(i, "get_info", items[NameInfoJson].version, http)
             [] status = 404 ->
                  /\ pc' = [pc EXCEPT ![i] = "ctor_txt"]
                  /\ last' = ItemStep(i, "construct", "get_info", <<>>, "pending", http,
                                      "none")
                  /\ items' = items
             [] OTHER -> ConstructRaise(i, "get_info", http)
    /\ UNCHANGED <<now, locks, client_id, current_sync_lock, frame, depth, calc>>

\* get_sync_version: self.get(".../.sync/version.txt:/content") after the 404
ConstructGetVersionTxt(i, fails) ==
    /\ pc[i] = "ctor_txt"
    /\ Guard(current_sync_lock[i], PathVersionTxt, now) = "send"
    /\ LET status == IF fails THEN 500
                     ELSE IF HasItem(items, NameVersionTxt) THEN 200 ELSE 404
           http == <<HttpStatus("get", PathVersionTxt, status)>>
       IN  CASE status = 200 ->
                  ConstructCheck(i, "get_txt", ParseInt(items[NameVersionTxt]), http)
             [] status = 404 ->
                  \* return None: a new one should be created
                  /\ pc' = [pc EXCEPT ![i] = "ctor_put"]
                  /\ last' = ItemStep(i, "construct", "get_txt", <<>>, "pending", http,
                                      "none")
                  /\ items' = items
             [] OTHER -> ConstructRaise(i, "get_txt", http)
    /\ UNCHANGED <<now, locks, client_id, current_sync_lock, frame, depth, calc>>

\* self.put(".../info.json:/content", json=sync_target_info)
ConstructPutInfo(i, status) ==
    /\ pc[i] = "ctor_put"
    /\ Guard(current_sync_lock[i], PathInfoJson, now) = "send"
    /\ LET http == <<HttpStatus("put", PathInfoJson, status)>> IN
       IF status = 200
       THEN /\ items' = ItemPut(items, NameInfoJson, SyncTargetInfo)
            /\ pc' = [pc EXCEPT ![i] = "idle"]
            /\ last' = ItemStep(i, "construct", "put_info", <<>>, "constructed", http,
                                "none")
       ELSE ConstructRaise(i, "put_info", http)
    /\ UNCHANGED <<now, locks, client_id, current_sync_lock, frame, depth, calc>>

Construct(i) ==
    \/ \E status \in {200, 401} : ConstructLogin(i, status)
    \/ \E fails \in BOOLEAN : ConstructGetInfo(i, fails)
    \/ \E fails \in BOOLEAN : ConstructGetVersionTxt(i, fails)
    \/ \E status \in {200, 500} : ConstructPutInfo(i, status)

\* SpecConstruct: two clients are constructed against a store that holds no
\* marker, or a marker of some version at info.json, at .sync/version.txt or both
InfoOfVersion(v) == [SyncTargetInfo EXCEPT !.version = v]

MarkerStores ==
    {NoItems}
    \cup {ItemPut(NoItems, NameInfoJson, InfoOfVersion(v)) : v \in 1..MaxVersion}
    \cup {ItemPut(NoItems, NameVersionTxt, VersionText(v)) : v \in 1..MaxVersion}
    \cup {ItemPut(ItemPut(NoItems, NameInfoJson, InfoOfVersion(v)),
                  NameVersionTxt, VersionText(w)) : v, w \in 1..MaxVersion}

InitConstruct ==
    /\ now = 0
    /\ locks = {}
    /\ client_id = [i \in Inst |-> IF i = "a" THEN "X" ELSE "Y"]
    /\ current_sync_lock = [i \in Inst |-> NoLock]
    /\ pc = [i \in Inst |-> "new"]
    /\ frame = [i \in Inst |-> NoFrame]
    /\ depth = [i \in Inst |-> 0]
    /\ last = NoStep("init")
    /\ items \in MarkerStores
    /\ calc = NoCalc

NextConstruct == \E i \in Inst : Construct(i)

SpecConstruct == InitConstruct /\ [][NextConstruct]_vars

\* the version the store's marker carried before the step, as get_sync_version
\* reads it from item `name`
MarkerVersionBefore(name) ==
    IF name = NameInfoJson THEN last.pre_items[name].version
    ELSE ParseInt(last.pre_items[name])

\* the step read the marker at `name` and got an answer from the store
MarkerRead(at, name) ==
    /\ last.op = "construct"
    /\ last.at = at
    /\ last.http[1].status # 500

\* what the construction does once it has found a marker of version v: nothing
\* is written; version 3 completes the construction, any other version is fatal
FoundMarker(v) ==
    /\ items = last.pre_items
    /\ Len(last.http) = 1 /\ last.http[1].method = "get"
    /\ IF v = 3
       THEN last.outcome = "constructed" /\ pc[last.inst] = "idle"
       ELSE last.outcome = "NotImplementedError" /\ pc[last.inst] = "failed"

\* C12: the construction logs in first, then reads the marker at info.json and,
\* when that is not found, at .sync/version.txt.  A marker of version 3 completes
\* the construction without any write; a marker of another version ends it with
\* NotImplementedError; when neither item is found, info.json is written with
\* version 3, encryption disabled and no master keys, and nothing else changes.
C12_Bootstrap ==
    /\ (last.op = "construct" /\ last.at = "login") =>
           /\ last.http = <<HttpStatus("post", <<"/login">>, last.http[1].status)>>
           /\ items = last.pre_items
           /\ IF last.http[1].ok
              THEN pc[last.inst] = "ctor_info"
              ELSE pc[last.inst] = "failed" /\ last.outcome = "HTTPError"
    /\ (MarkerRead("get_info", NameInfoJson) /\ HasItem(last.pre_items, NameInfoJson)) =>
           FoundMarker(MarkerVersionBefore(NameInfoJson))
    /\ (MarkerRead("get_info", NameInfoJson) /\ ~HasItem(last.pre_items, NameInfoJson)) =>
           /\ pc[last.inst] = "ctor_txt"
           /\ items = last.pre_items
    /\ (MarkerRead("get_txt", NameVersionTxt) /\ HasItem(last.pre_items, NameVersionTxt)) =>
           FoundMarker(MarkerVersionBefore(NameVersionTxt))
    /\ (MarkerRead("get_txt", NameVersionTxt) /\ ~HasItem(last.pre_items, NameVersionTxt)) =>
           /\ pc[last.inst] = "ctor_put"
           /\ items = last.pre_items
    /\ (last.op = "construct" /\ last.at = "put_info" /\ last.http[1].ok) =>
           /\ last.http[1].method = "put"
           /\ last.http[1].path = <<"/api/items/root:/", "info.json", ":/content">>
           /\ HasItem(items, NameInfoJson)
           /\ items[NameInfoJson].version = 3
           /\ items[NameInfoJson].e2ee = FALSE
           /\ items[NameInfoJson].masterKeys = <<>>
           /\ \A n \in DOMAIN last.pre_items \ {NameInfoJson} :
                  HasItem(items, n) /\ items[n] = last.pre_items[n]
           /\ DOMAIN items = DOMAIN last.pre_items \cup {NameInfoJson}
           /\ last.outcome = "constructed"
           /\ pc[last.inst] = "idle"
    /\ \A i \in Inst :
           pc[i] \in {"ctor_info", "ctor_txt", "ctor_put", "idle", "failed"} =>
               current_sync_lock[i] = NoLock /\ locks = {}

\* a store without marker has been initialised by the construction
C12_Witness ==
    /\ last.op = "construct"
    /\ last.at = "put_info"
    /\ last.outcome = "constructed"
    /\ last.pre_items = NoItems
    /\ items[NameInfoJson] = SyncTargetInfo

----------------------------------------------------------------------------
(* Strings: a string is the sequence of its characters *)

HexLower == {"0", "1", "2", "3", "4", "5", "6", "7", "8", "9",
             "a", "b", "c", "d", "e", "f"}
HexUpper == {"A", "B", "C", "D", "E", "F"}
HexDigits == HexLower \cup HexUpper
Whitespace == {" ", "\n", "\t"}

Rep(c, n) == [k \in 1..n |-> c]

DropFirst(s, n) == SubSeq(s, n + 1, Len(s))

RECURSIVE Lstrip(_)
Lstrip(s) == IF s # <<>> /\ s[1] \in Whitespace THEN Lstrip(Tail(s)) ELSE s

RECURSIVE Rstrip(_)
Rstrip(s) ==
    IF s # <<>> /\ s[Len(s)] \in Whitespace THEN Rstrip(SubSeq(s, 1, Len(s) - 1)) ELSE s

\* int(id_, 16) does not raise ValueError: surrounding whitespace, a sign, the
\* prefix 0x or 0X (with one underscore after it), then hexadecimal digits with
\* single underscores between them
IntBase16Parses(s) ==
    LET stripped == Rstrip(Lstrip(s))
        unsigned == IF stripped # <<>> /\ stripped[1] \in {"+", "-"}
                    THEN Tail(stripped) ELSE stripped
        prefixed == Len(unsigned) >= 2 /\ unsigned[1] = "0" /\ unsigned[2] \in {"x", "X"}
        after == IF prefixed THEN DropFirst(unsigned, 2) ELSE unsigned
        digits == IF prefixed /\ after # <<>> /\ after[1] = "_" THEN Tail(after) ELSE after
    IN  /\ digits # <<>>
        /\ \A k \in 1..Len(digits) : digits[k] \in HexDigits \cup {"_"}
        /\ digits[1] # "_"
        /\ digits[Len(digits)] # "_"
        /\ \A k \in 1..(Len(digits) - 1) : ~(digits[k] = "_" /\ digits[k + 1] = "_")

\* is_id_valid
IsIdValid(id_) ==
    IF Len(id_) = 32 THEN IntBase16Parses(id_) ELSE Len(id_) = 22

\* SpecIdValid: is_id_valid applied to strings of the lengths around 22 and 32
\* that start with up to MaxAffix and end with up to one character of IdAlphabet
MaxAffix == 2

IdAlphabet == {"a", "0", "A", "g", "x", "+", "-", "_", " "}
IdLengths == {0, 1, 21, 22, 23, 31, 32, 33}

Affixes(n) == UNION {[1..k -> IdAlphabet] : k \in 0..n}

IdInputs ==
    {pre \o Rep("a", n - Len(pre) - Len(suf)) \o suf :
        <<pre, suf, n>> \in {x \in Affixes(MaxAffix) \X Affixes(1) \X IdLengths :
                             Len(x[1]) + Len(x[2]) <= x[3]}}

InitIdValid ==
    /\ now = 0
    /\ locks = {}
    /\ client_id = [i \in Inst |-> IF i = "a" THEN "X" ELSE "Y"]
    /\ current_sync_lock = [i \in Inst |-> NoLock]
    /\ pc = [i \in Inst |-> "idle"]
    /\ frame = [i \in Inst |-> NoFrame]
    /\ depth = [i \in Inst |-> 0]
    /\ last = NoStep("init")
    /\ items = NoItems
    /\ calc \in {[fn |-> "id", arg |-> id_] : id_ \in IdInputs}

CallIsIdValid ==
    /\ calc.fn = "id"
    /\ calc' = [fn |-> "is_id_valid", arg |-> calc.arg, result |-> IsIdValid(calc.arg)]
    /\ UNCHANGED <<now, locks, client_id, current_sync_lock, pc, frame, depth, last, items>>

NextIdValid == CallIsIdValid

SpecIdValid == InitIdValid /\ [][NextIdValid]_vars

\* C19: is_id_valid accepts a string of 32 lowercase hexadecimal characters,
\* rejects a string of 32 characters of which one is not a hexadecimal digit, and
\* rejects every string whose length is neither 32 nor 22.
C19_IdValidity ==
    calc.fn = "is_id_valid" =>
        /\ (Len(calc.arg) = 32 /\ \A k \in 1..32 : calc.arg[k] \in HexLower) =>
               calc.result = TRUE
        /\ (Len(calc.arg) = 32 /\ \E k \in 1..32 : calc.arg[k] \notin HexDigits) =>
               calc.result = FALSE
        /\ Len(calc.arg) \notin {32, 22} => calc.result = FALSE

----------------------------------------------------------------------------
(* Text: a text is a string, the sequence of its characters; a word that holds *)
(* no newline, colon or space (a field name, a number, a date) is written as   *)
(* one element.                                                                *)

NL == "\n"
BlankLine == <<"\n", "\n">>
KeySep == <<":", " ">>

\* s.find(sep) and s.rfind(sep), counted from 1; 0 when sep does not occur
Occurrences(s, sep) ==
    {k \in 1..(Len(s) - Len(sep) + 1) : SubSeq(s, k, k + Len(sep) - 1) = sep}

Find(s, sep) ==
    LET hits == Occurrences(s, sep)
    IN  IF hits = {} THEN 0 ELSE CHOOSE k \in hits : \A m \in hits : k <= m

RFind(s, sep) ==
    LET hits == Occurrences(s, sep)
    IN  IF hits = {} THEN 0 ELSE CHOOSE k \in hits : \A m \in hits : k >= m

\* the two parts of s around the occurrence of sep at k
SplitAt(s, sep, k) ==
    IF k = 0 THEN <<s>>
    ELSE <<SubSeq(s, 1, k - 1), SubSeq(s, k + Len(sep), Len(s))>>

\* s.split(sep, 1), s.rsplit(sep, 1)
RSplit1(s, sep) == SplitAt(s, sep, RFind(s, sep))

Split1(s, sep) == SplitAt(s, sep, Find(s, sep))

\* s.split(sep)
RECURSIVE Split(_, _)
Split(s, sep) ==
    LET k == Find(s, sep)
    IN  IF k = 0 THEN <<s>>
        ELSE <<SubSeq(s, 1, k - 1)>> \o Split(SubSeq(s, k + Len(sep), Len(s)), sep)

\* sep.join(lines)
RECURSIVE Join(_, _)
Join(lines, sep) ==
    IF lines = <<>> THEN <<>>
    ELSE IF Len(lines) = 1 THEN lines[1]
    ELSE lines[1] \o sep \o Join(Tail(lines), sep)

\* int(value) of a string: surrounding whitespace, a sign, a decimal number
Numerals == {"0", "1", "2", "3", "4", "5", "6", "7", "8", "9", "10", "11", "12",
             "13", "14", "15", "16", "17"}

NumeralValue(d) ==
    CASE d = "0" -> 0 [] d = "1" -> 1 [] d = "2" -> 2 [] d = "3" -> 3 [] d = "4" -> 4
      [] d = "5" -> 5 [] d = "6" -> 6 [] d = "7" -> 7 [] d = "8" -> 8 [] d = "9" -> 9
      [] d = "10" -> 10 [] d = "11" -> 11 [] d = "12" -> 12 [] d = "13" -> 13
      [] d = "14" -> 14 [] d = "15" -> 15 [] d = "16" -> 16 [] d = "17" -> 17

NumeralOf(n) == CHOOSE d \in Numerals : NumeralValue(d) = n

Unsigned(s) ==
    LET stripped == Rstrip(Lstrip(s))
    IN  IF stripped # <<>> /\ stripped[1] \in {"+", "-"} THEN Tail(stripped) ELSE stripped

IntParses(s) == Len(Unsigned(s)) = 1 /\ Unsigned(s)[1] \in Numerals

IntOf(s) ==
    LET stripped == Rstrip(Lstrip(s))
        n == NumeralValue(Unsigned(s)[1])
    IN  IF stripped[1] = "-" THEN 0 - n ELSE n

----------------------------------------------------------------------------
(* data_types: the records.  A record is its kind and the function f from the  *)
(* names of its assigned fields (the fields that are not None) to their        *)
(* values; a value carries its Python type.  Of the fields of every kind the   *)
(* model keeps those below, in the order of the dataclass; the fields left out *)
(* are treated by the code like one of those kept.                             *)

ItemTypeNote == 1
ItemTypeFolder == 2
ItemTypeResource == 4
ItemTypeTag == 5
ItemTypeNoteTag == 6
ItemTypeRevision == 13
ItemTypeCommand == 16
ItemTypes == ItemTypeNote..ItemTypeCommand

MarkupLanguageMarkdown == 1
MarkupLanguageHtml == 2

Kinds == {"NoteData", "NotebookData", "ResourceData", "TagData", "NoteTagData"}

FieldsOf(kind) ==
    CASE kind = "NoteData" ->
           <<"type_", "id", "parent_id", "title", "body", "created_time", "updated_time",
             "author", "is_todo", "source_application", "markup_language">>
      [] kind = "NotebookData" ->
           <<"type_", "id", "title", "created_time", "updated_time", "parent_id">>
      [] kind = "ResourceData" ->
           <<"type_", "id", "title", "mime", "filename", "created_time", "updated_time">>
      [] kind = "TagData" ->
           <<"type_", "id", "title", "created_time", "updated_time", "parent_id">>
      [] kind = "NoteTagData" ->
           <<"type_", "id", "note_id", "tag_id", "created_time", "updated_time">>

FieldSet(kind) == {FieldsOf(kind)[k] : k \in 1..Len(FieldsOf(kind))}

StrV(s) == [t |-> "str", v |-> s]
IntV(n) == [t |-> "int", v |-> n]
BoolV(b) == [t |-> "bool", v |-> b]
TimeV(n) == [t |-> "datetime", v |-> n]

\* BaseData.__post_init__: the classes of fields it casts
IdFields == {"id", "parent_id", "share_id", "conflict_original_id", "master_key_id",
             "item_id"}
TimeFields == {"created_time", "updated_time", "user_created_time", "user_updated_time",
               "deleted_time", "todo_due", "todo_completed"}
BoolFields == {"is_conflict", "is_todo", "encryption_applied", "is_shared",
               "encryption_blob_encrypted"}

\* int(value): the number, or the exception
AsInt(v) ==
    CASE v.t = "int" -> [error |-> "", n |-> v.v]
      [] v.t = "bool" -> [error |-> "", n |-> IF v.v THEN 1 ELSE 0]
      [] v.t = "str" -> IF IntParses(v.v) THEN [error |-> "", n |-> IntOf(v.v)]
                        ELSE [error |-> "ValueError", n |-> 0]
      [] OTHER -> [error |-> "TypeError", n |-> 0]

\* A datetime n is n milliseconds after the epoch, 1 <= n <= 17.  Millis(n) is
\* its fraction of a second in six digits, DatetimeStr(n) is str() of it, and
\* IsoStr(n) is its form "%Y-%m-%dT%H:%M:%S.%fZ".
Millis(n) == <<IF n < 10 THEN "00" ELSE "0", NumeralOf(n), "000">>

DatetimeStr(n) == <<"1970-01-01", " ", "00:00:00", ".">> \o Millis(n)

IsoStr(n) == <<"1970-01-01", "T", "00:00:00", ".">> \o Millis(n) \o <<"Z">>

IsoParses(s) == \E n \in 1..17 : s = IsoStr(n)

IsoValue(s) == CHOOSE n \in 1..17 : s = IsoStr(n)

Casted(value) == [error |-> "", none |-> FALSE, value |-> value]
CastNone == [error |-> "", none |-> TRUE, value |-> StrV(<<>>)]
CastError(e) == [error |-> e, none |-> FALSE, value |-> StrV(<<>>)]

\* BaseData.__post_init__, for one field that is not None
Cast(name, v) ==
    CASE name \in IdFields ->
           IF v.t = "str" /\ v.v # <<>> /\ ~IsIdValid(v.v)
           THEN CastError("ValueError") ELSE Casted(v)
      [] name \in TimeFields ->
           LET i == AsInt(v) IN
           IF i.error = "" THEN (IF i.n = 0 THEN CastNone ELSE Casted(TimeV(i.n)))
           ELSE IF i.error = "ValueError"
                THEN (IF v.t = "str" /\ IsoParses(v.v) THEN Casted(TimeV(IsoValue(v.v)))
                      ELSE CastError("ValueError"))
                ELSE CastError(i.error)
      [] name \in BoolFields ->
           LET i == AsInt(v) IN
           IF i.error = "" THEN Casted(BoolV(i.n # 0)) ELSE CastError(i.error)
      [] name = "markup_language" ->
           LET i == AsInt(v) IN
           IF i.error # "" THEN CastError(i.error)
           ELSE IF i.n \in {MarkupLanguageMarkdown, MarkupLanguageHtml}
                THEN Casted(IntV(i.n)) ELSE CastError("ValueError")
      [] name = "type_" ->
           LET i == AsInt(v) IN
           IF i.error # "" THEN CastError(i.error)
           ELSE IF i.n \in ItemTypes
                THEN Casted(IntV(i.n)) ELSE CastError("ValueError")
      [] OTHER -> Casted(v)

RecordResult(kind, f) == [tag |-> "record", kind |-> kind, f |-> f]
ErrorResult(e) == [tag |-> "error", error |-> e]
NoneResult == [tag |-> "none"]

\* __post_init__ over the fields given, casts being the outcome of Cast for
\* each: the first field in the order of the class whose cast raises decides
PostInit(kind, casts) ==
    LET fields == FieldsOf(kind)
        failing == {k \in 1..Len(fields) :
                       fields[k] \in DOMAIN casts /\ casts[fields[k]].error # ""}
        first == CHOOSE k \in failing : \A m \in failing : k <= m
    IN  IF failing # {} THEN ErrorResult(casts[fields[first]].error)
        ELSE RecordResult(kind, [n \in {m \in DOMAIN casts : ~casts[m].none} |->
                                    casts[n].value])

\* the constructor of a record, Class(**kwargs): kwargs is a function from keys
\* (strings) to values.  A key that is no field of the class is a TypeError;
\* then __post_init__ casts the fields in their order.
NewRecord(kind, kwargs) ==
    IF \E key \in DOMAIN kwargs : key \notin {<<n>> : n \in FieldSet(kind)}
    THEN ErrorResult("TypeError")
    ELSE PostInit(kind, [n \in {m \in FieldSet(kind) : <<m>> \in DOMAIN kwargs} |->
                            Cast(n, kwargs[<<n>>])])

----------------------------------------------------------------------------
(* data_types: serialize.                                                      *)

\* an f-string's text of a value
Format(v) ==
    CASE v.t = "str" -> v.v
      [] v.t = "int" -> <<NumeralOf(v.v)>>
      [] v.t = "bool" -> IF v.v THEN <<"True">> ELSE <<"False">>
      [] v.t = "datetime" -> DatetimeStr(v.v)

ItemTypeOf(kind) ==
    CASE kind = "NoteData" -> ItemTypeNote
      [] kind = "NotebookData" -> ItemTypeFolder
      [] kind = "ResourceData" -> ItemTypeResource
      [] kind = "TagData" -> ItemTypeTag
      [] kind = "NoteTagData" -> ItemTypeNoteTag

\* mimetypes.guess_type(filename or ""), with the fallback of serialize
MimeGuess(f) ==
    LET name == IF "filename" \in DOMAIN f THEN f["filename"].v ELSE <<>>
    IN  IF name # <<>> /\ name[Len(name)] = ".png" THEN <<"image/", "png">>
        ELSE IF name # <<>> /\ name[Len(name)] = ".txt" THEN <<"text/", "plain">>
        ELSE <<"application/", "octet-stream">>

SetField(f, name, v) == [n \in DOMAIN f \cup {name} |-> IF n = name THEN v ELSE f[n]]

Default(f, name, v) == IF name \in DOMAIN f THEN f ELSE SetField(f, name, v)

\* the fields serialize assigns on the record when they are None
Defaults(kind, f, fresh) ==
    LET withId == Default(f, "id", StrV(fresh))
    IN  CASE kind = "NoteData" ->
               Default(Default(withId, "source_application", StrV(<<"joppy">>)),
                       "markup_language", IntV(MarkupLanguageMarkdown))
          [] kind = "ResourceData" -> Default(withId, "mime", StrV(MimeGuess(f)))
          [] OTHER -> withId

MetadataLine(name, text) == <<name>> \o KeySep \o text

\* the lines serialize appends for one field, f being the fields after Defaults
FieldLines(kind, f, name) ==
    CASE name \in {"title", "body"} -> <<>>
      [] name = "type_" -> <<MetadataLine(name, <<NumeralOf(ItemTypeOf(kind))>>)>>
      [] name = "updated_time" ->
           <<MetadataLine(name, IF name \in DOMAIN f THEN Format(f[name]) ELSE <<>>)>>
      [] OTHER -> IF name \in DOMAIN f THEN <<MetadataLine(name, Format(f[name]))>>
                  ELSE <<>>

\* the lines serialize starts with
HeadLines(kind, f) ==
    CASE kind = "NoteData" ->
           <<IF "title" \in DOMAIN f THEN Format(f["title"]) ELSE <<>>, <<>>>>
           \o (IF "body" \in DOMAIN f THEN <<Format(f["body"]), <<>>>> ELSE <<>>)
      [] kind = "NoteTagData" -> <<>>
      [] OTHER -> IF "title" \in DOMAIN f THEN <<Format(f["title"]), <<>>>> ELSE <<>>

RECURSIVE Concat(_)
Concat(seqs) == IF seqs = <<>> THEN <<>> ELSE Head(seqs) \o Concat(Tail(seqs))

\* serialize writing the identifier it draws without assigning it to self.id
SerializeIdNotStored(kind, f0, fresh) ==
    LET f == Defaults(kind, f0, fresh)
        fields == FieldsOf(kind)
        lines == HeadLines(kind, f)
                 \o Concat([k \in 1..Len(fields) |-> FieldLines(kind, f, fields[k])])
    IN  [text |-> Join(lines, <<NL>>),
         record |-> RecordResult(kind, [n \in DOMAIN f \ ({"id"} \ DOMAIN f0) |-> f[n]])]

\* record.serialize(): the text, and the record as serialize leaves it; fresh is
\* the identifier uuid4 draws
Serialize(kind, f0, fresh) ==
    LET f == Defaults(kind, f0, fresh)
        fields == FieldsOf(kind)
        lines == HeadLines(kind, f)
                 \o Concat([k \in 1..Len(fields) |-> FieldLines(kind, f, fields[k])])
    IN  [text |-> Join(lines, <<NL>>), record |-> RecordResult(kind, f)]

----------------------------------------------------------------------------
(* server_api: deserialize.                                                    *)

NoMetadata == [key \in {} |-> StrV(<<>>)]

\* extract_metadata without `if not value: continue`
RECURSIVE ExtractLinesKeepEmpty(_, _, _)
ExtractLinesKeepEmpty(lines, k, md) ==
    IF k > Len(lines) THEN [error |-> "", md |-> md]
    ELSE LET kv == Split1(lines[k], KeySep)
         IN  IF Len(kv) = 1 THEN [error |-> "ValueError", md |-> md]
             ELSE ExtractLinesKeepEmpty(lines, k + 1,
                               [key \in DOMAIN md \cup {kv[1]} |->
                                   IF key = kv[1] THEN StrV(kv[2]) ELSE md[key]])

\* extract_metadata over the lines from the k-th on, md being the dictionary so far
RECURSIVE ExtractLines(_, _, _)
ExtractLines(lines, k, md) ==
    IF k > Len(lines) THEN [error |-> "", md |-> md]
    ELSE LET kv == Split1(lines[k], KeySep)
         IN  IF Len(kv) = 1 THEN [error |-> "ValueError", md |-> md]
             ELSE IF kv[2] = <<>> THEN ExtractLines(lines, k + 1, md)
             ELSE ExtractLines(lines, k + 1,
                               [key \in DOMAIN md \cup {kv[1]} |->
                                   IF key = kv[1] THEN StrV(kv[2]) ELSE md[key]])

ExtractMetadata(serialized_metadata) ==
    ExtractLines(Split(serialized_metadata, <<NL>>), 1, NoMetadata)

\* Sections with the body cut at every blank line: the body is the second
\* segment only
SectionsSecondSegment(body) ==
    LET metadata_splitted == RSplit1(body, BlankLine)
        title_splitted == Split(metadata_splitted[1], BlankLine)
    IN  IF Len(metadata_splitted) = 1
        THEN [has_title |-> FALSE, has_body |-> FALSE, title |-> <<>>, note_body |-> <<>>,
              metadata |-> metadata_splitted[1]]
        ELSE IF Len(title_splitted) = 1
        THEN [has_title |-> TRUE, has_body |-> FALSE, title |-> title_splitted[1],
              note_body |-> <<>>, metadata |-> metadata_splitted[2]]
        ELSE [has_title |-> TRUE, has_body |-> TRUE, title |-> title_splitted[1],
              note_body |-> title_splitted[2], metadata |-> metadata_splitted[2]]

\* the three sections deserialize cuts the text into
Sections(body) ==
    LET metadata_splitted == RSplit1(body, BlankLine)
        title_splitted == Split1(metadata_splitted[1], BlankLine)
    IN  IF Len(metadata_splitted) = 1
        THEN [has_title |-> FALSE, has_body |-> FALSE, title |-> <<>>, note_body |-> <<>>,
              metadata |-> metadata_splitted[1]]
        ELSE IF Len(title_splitted) = 1
        THEN [has_title |-> TRUE, has_body |-> FALSE, title |-> title_splitted[1],
              note_body |-> <<>>, metadata |-> metadata_splitted[2]]
        ELSE [has_title |-> TRUE, has_body |-> TRUE, title |-> title_splitted[1],
              note_body |-> title_splitted[2], metadata |-> metadata_splitted[2]]

KindOfType(n) ==
    CASE n = ItemTypeNote -> "NoteData"
      [] n = ItemTypeFolder -> "NotebookData"
      [] n = ItemTypeResource -> "ResourceData"
      [] n = ItemTypeTag -> "TagData"
      [] n = ItemTypeNoteTag -> "NoteTagData"
      [] OTHER -> "none"

\* deserialize, from `if title is not None` on: the title and the body of the
\* sections are entered into the dictionary
WithTitleBody(s, md) ==
    [key \in DOMAIN md \cup (IF s.has_title THEN {<<"title">>} ELSE {})
                       \cup (IF s.has_body THEN {<<"body">>} ELSE {}) |->
        IF s.has_title /\ key = <<"title">> THEN StrV(s.title)
        ELSE IF s.has_body /\ key = <<"body">> THEN StrV(s.note_body)
        ELSE md[key]]

\* the dispatch without the conversion to the enumeration
DispatchNoEnum(item_type, metadata) ==
    IF item_type.error # "" THEN ErrorResult(item_type.error)
    ELSE IF KindOfType(item_type.n) = "none" THEN NoneResult
    ELSE NewRecord(KindOfType(item_type.n), metadata)

\* deserialize, the dispatch: item_type is int(metadata["type_"]) or its exception
Dispatch(item_type, metadata) ==
    IF item_type.error # "" THEN ErrorResult(item_type.error)
    ELSE IF item_type.n \notin ItemTypes THEN ErrorResult("ValueError")
    ELSE IF KindOfType(item_type.n) = "none" THEN NoneResult
    ELSE NewRecord(KindOfType(item_type.n), metadata)

DeserializeMetadata(metadata) ==
    IF <<"type_">> \notin DOMAIN metadata THEN ErrorResult("KeyError")
    ELSE Dispatch(AsInt(metadata[<<"type_">>]), metadata)

DeserializeSections(s, e) ==
    IF e.error # "" THEN ErrorResult(e.error)
    ELSE DeserializeMetadata(WithTitleBody(s, e.md))

Deserialize(body) ==
    DeserializeSections(Sections(body), ExtractMetadata(Sections(body).metadata))

----------------------------------------------------------------------------
(* The codec on its own: a caller builds a record, serializes it and           *)
(* deserializes the text; or deserializes a text read from the server.  calc   *)
(* holds the call in progress.                                                 *)

Merge(f, g) == [k \in DOMAIN f \cup DOMAIN g |-> IF k \in DOMAIN f THEN f[k] ELSE g[k]]

\* the keyword name left out, or given one of vals
Some(name, vals) == {NoMetadata} \cup {[key \in {<<name>>} |-> v] : v \in vals}

Both(S, T) == {Merge(a, b) : a \in S, b \in T}

IdA == Rep("a", 32)
FreshIds == {Rep("b", 32), Rep("c", 32)}

Titles == {StrV(<<"t">>)}
Bodies == {StrV(<<"b">>), StrV(<<"b", NL, NL, "c">>), StrV(<<NL, "b", NL>>)}

\* the keyword arguments of the records built, by kind
KwargsOf(kind) ==
    LET id == Some("id", {StrV(IdA)})
        title == Some("title", Titles)
        created == Some("created_time", {IntV(3)})
    IN  CASE kind = "NoteData" ->
               Both(id, Both(title, Both(Some("body", Bodies),
                    Both(Some("parent_id", {StrV(IdA)}),
                         Both(Some("is_todo", {IntV(0), IntV(1)}), created)))))
          [] kind = "NotebookData" ->
               Both(id, Both(title, Both(Some("parent_id", {StrV(IdA), StrV(<<"g">>)}),
                                         created)))
          [] kind = "ResourceData" ->
               Both(id, Both(title, Both(Some("filename", {StrV(<<"f", ".png">>)}),
                                         Some("mime", {StrV(<<"text/", "plain">>)}))))
          [] kind = "TagData" ->
               Both(id, Both(title, Both(created, Some("updated_time", {IntV(5)}))))
          [] kind = "NoteTagData" ->
               Both(id, Both(Some("note_id", {StrV(IdA)}), Some("tag_id", {StrV(IdA)})))

\* texts as the server holds them: a metadata block of lines "key: value" whose
\* keys are fields other than title and body, after no, one or more sections
MetadataTexts ==
    {MetadataLine("type_", <<NumeralOf(n)>>) : n \in {0, 1, 2, 3, 4, 5, 6, 13, 16, 17}}
    \cup {MetadataLine("id", IdA) \o <<NL>> \o MetadataLine("type_", <<"1">>),
          MetadataLine("type_", <<"1">>) \o <<NL>> \o MetadataLine("author", <<>>),
          MetadataLine("id", <<>>) \o <<NL>> \o MetadataLine("type_", <<"1">>),
          MetadataLine("type_", <<"2">>) \o <<NL>> \o MetadataLine("parent_id", <<>>)
              \o <<NL>> \o MetadataLine("created_time", <<>>),
          MetadataLine("type_", <<>>),
          MetadataLine("id", IdA), <<"x">>}

TitleTexts == {<<>>, <<"t">>, <<"t", NL>>, <<"t", NL, "u">>}
BodyTexts == {<<>>, <<"b">>, <<"b", NL, NL, "c">>, <<NL, "b">>, <<"b", NL>>,
              <<"b", NL, NL, NL, NL, "c">>}

ServerTexts ==
    MetadataTexts
    \cup {title \o BlankLine \o m : title \in TitleTexts, m \in MetadataTexts}
    \cup {title \o BlankLine \o b \o BlankLine \o m :
            title \in TitleTexts, b \in BodyTexts, m \in MetadataTexts}

InitCodec ==
    /\ now = 0
    /\ locks = {}
    /\ client_id = [i \in Inst |-> IF i = "a" THEN "X" ELSE "Y"]
    /\ current_sync_lock = [i \in Inst |-> NoLock]
    /\ pc = [i \in Inst |-> "idle"]
    /\ frame = [i \in Inst |-> NoFrame]
    /\ depth = [i \in Inst |-> 0]
    /\ last = NoStep("init")
    /\ items = NoItems
    /\ calc \in UNION {{[fn |-> "kwargs", kind |-> kind, kwargs |-> kw] :
                            kw \in KwargsOf(kind)} : kind \in Kinds}
              \cup {[fn |-> "text", text |-> text] : text \in ServerTexts}

\* record = Class(**kwargs)
CallNewRecord ==
    /\ calc.fn = "kwargs"
    /\ calc' = [fn |-> "record", kind |-> calc.kind,
                result |-> NewRecord(calc.kind, calc.kwargs)]
    /\ UNCHANGED <<now, locks, client_id, current_sync_lock, pc, frame, depth, last, items>>

\* text = record.serialize()
CallSerialize ==
    /\ calc.fn = "record"
    /\ calc.result.tag = "record"
    /\ \E fresh \in FreshIds :
          LET s == Serialize(calc.kind, calc.result.f, fresh)
          IN  calc' = [fn |-> "serialize", kind |-> calc.kind, fresh |-> fresh,
                       before |-> calc.result, record |-> s.record, text |-> s.text]
    /\ UNCHANGED <<now, locks, client_id, current_sync_lock, pc, frame, depth, last, items>>

\* deserialize(text) of the text just serialized
CallRoundTrip ==
    /\ calc.fn = "serialize"
    /\ calc' = [fn |-> "roundtrip", kind |-> calc.kind, fresh |-> calc.fresh,
                before |-> calc.before, record |-> calc.record, text |-> calc.text,
                result |-> Deserialize(calc.text)]
    /\ UNCHANGED <<now, locks, client_id, current_sync_lock, pc, frame, depth, last, items>>

\* deserialize(text) of a text of the server
CallDeserialize ==
    /\ calc.fn = "text"
    /\ calc' = [fn |-> "deserialize", text |-> calc.text, result |-> Deserialize(calc.text)]
    /\ UNCHANGED <<now, locks, client_id, current_sync_lock, pc, frame, depth, last, items>>

NextCodec == CallNewRecord \/ CallSerialize \/ CallRoundTrip \/ CallDeserialize

SpecCodec == InitCodec /\ [][NextCodec]_vars

\* C13: for every kind with a serializer and every record r, deserializing the
\* text r.serialize() returns gives a record of the same kind in which every
\* field set on r has the value it has on r.
C13_RoundTrip ==
    calc.fn = "roundtrip" =>
        /\ calc.result.tag = "record"
        /\ calc.result.kind = calc.kind
        /\ \A name \in DOMAIN calc.before.f :
              /\ name \in DOMAIN calc.result.f
              /\ calc.result.f[name] = calc.before.f[name]

\* C14: deserialize cuts the text at its last blank line and reads what follows
\* as metadata.  Without a blank line the record has neither title nor body;
\* with one segment before the metadata that segment is the title and there is
\* no body; with two or more the title is the first segment and the body is all
\* the rest up to the metadata, its blank lines kept.
C14_SectionSplit ==
    (calc.fn = "deserialize" /\ calc.result.tag = "record") =>
        LET hits == Occurrences(calc.text, BlankLine)
            cut == CHOOSE k \in hits : \A m \in hits : k >= m
            segments == Split(SubSeq(calc.text, 1, cut - 1), BlankLine)
            f == calc.result.f
        IN  IF hits = {} THEN "title" \notin DOMAIN f /\ "body" \notin DOMAIN f
            ELSE /\ "title" \in DOMAIN f
                 /\ f["title"] = StrV(segments[1])
                 /\ IF Len(segments) = 1 THEN "body" \notin DOMAIN f
                    ELSE /\ "body" \in DOMAIN f
                         /\ f["body"] = StrV(Join(Tail(segments), BlankLine))

C14_Witness ==
    /\ calc.fn = "deserialize"
    /\ calc.result.tag = "record"
    /\ "body" \in DOMAIN calc.result.f
    /\ calc.result.f["title"] = StrV(<<"t">>)
    /\ calc.result.f["body"] = StrV(<<"b", NL, NL, "c">>)

\* the metadata block of a text: what follows its last blank line
MetadataBlock(text) ==
    LET hits == Occurrences(text, BlankLine)
        cut == CHOOSE k \in hits : \A m \in hits : k >= m
    IN  IF hits = {} THEN text ELSE SubSeq(text, cut + Len(BlankLine), Len(text))

\* the segments before the metadata block
SegmentsBefore(text) ==
    LET hits == Occurrences(text, BlankLine)
        cut == CHOOSE k \in hits : \A m \in hits : k >= m
    IN  IF hits = {} THEN <<>> ELSE Split(SubSeq(text, 1, cut - 1), BlankLine)

MetadataLinesOf(text) == Split(MetadataBlock(text), <<NL>>)

\* the metadata block has the line `type_: n`
Discriminator(text, n) ==
    \E k \in 1..Len(MetadataLinesOf(text)) :
        MetadataLinesOf(text)[k] = MetadataLine("type_", <<NumeralOf(n)>>)

\* the sections of the text are fields of the kind
Fits(text, kind) ==
    /\ Len(SegmentsBefore(text)) >= 1 => "title" \in FieldSet(kind)
    /\ Len(SegmentsBefore(text)) >= 2 => "body" \in FieldSet(kind)

SupportedTypes ==
    {ItemTypeNote, ItemTypeFolder, ItemTypeResource, ItemTypeTag, ItemTypeNoteTag}

DiscriminatorsRead == 0..17

\* C27: deserialize of a text whose discriminator is Revision, or another item
\* type of the enumeration without a record class, returns None and raises
\* nothing; for the discriminators of Note, Notebook, Resource, Tag and NoteTag
\* it returns a record of that kind (the text having the sections of the kind)
\* and never None or a record of another kind; for a value outside the
\* enumeration it raises.
C27_DiscriminatorDispatch ==
    calc.fn = "deserialize" =>
        \A n \in DiscriminatorsRead :
            Discriminator(calc.text, n) =>
                IF n \notin ItemTypes THEN calc.result.tag = "error"
                ELSE IF n \notin SupportedTypes THEN calc.result = NoneResult
                ELSE /\ calc.result.tag # "none"
                     /\ Fits(calc.text, KindOfType(n)) => calc.result.tag = "record"
                     /\ calc.result.tag = "record" =>
                           /\ calc.result.kind = KindOfType(n)
                           /\ ItemTypeOf(calc.result.kind) = n
                           /\ calc.result.f["type_"] = IntV(n)

\* a revision with a title and a body is read as None
C27_Witness ==
    /\ calc.fn = "deserialize"
    /\ Discriminator(calc.text, ItemTypeRevision)
    /\ Len(SegmentsBefore(calc.text)) = 2
    /\ calc.result = NoneResult

\* the k-th metadata line is `key: ` with nothing after it, and no other line
\* gives the key a value
EmptyValueLine(lines, k) ==
    /\ lines[k] # <<>>
    /\ lines[k] = MetadataLine(lines[k][1], <<>>)
    /\ \A m \in 1..Len(lines) :
          (lines[m] # <<>> /\ lines[m][1] = lines[k][1]) => lines[m] = lines[k]

\* C28: in the record deserialize returns, the key of a metadata line with an
\* empty value is not set (the field is None), whatever the key; no field read
\* from the metadata is the empty string.
C28_EmptyValueDropped ==
    (calc.fn \in {"deserialize", "roundtrip"} /\ calc.result.tag = "record") =>
        /\ \A k \in 1..Len(MetadataLinesOf(calc.text)) :
              EmptyValueLine(MetadataLinesOf(calc.text), k) =>
                  MetadataLinesOf(calc.text)[k][1] \notin DOMAIN calc.result.f
        /\ \A name \in DOMAIN calc.result.f \ {"title", "body"} :
              calc.result.f[name] # StrV(<<>>)

\* a notebook of the root: its parent_id line and its created_time line are empty
C28_Witness ==
    /\ calc.fn = "deserialize"
    /\ calc.result.tag = "record"
    /\ calc.result.kind = "NotebookData"
    /\ \E k \in 1..Len(MetadataLinesOf(calc.text)) :
          MetadataLinesOf(calc.text)[k] = MetadataLine("parent_id", <<>>)
    /\ "parent_id" \notin DOMAIN calc.result.f
    /\ "created_time" \notin DOMAIN calc.result.f
    /\ "title" \in DOMAIN calc.result.f

----------------------------------------------------------------------------
(* tools._unpaginate.  The function func it is given is a sequence of pages,   *)
(* each a DataList with items and has_more; asked for a page after the last it *)
(* gives the last again, and asked without a page it gives the first.          *)

MaxPages == 3
MaxPage == 5
PageSizes == {0, 1, 10}

\* the items of the page-th page when it holds size items
PageItems(page, size) == [j \in 1..size |-> <<page, j>>]

RECURSIVE SeqsOver(_, _)
SeqsOver(S, n) ==
    IF n = 0 THEN {<<>>} ELSE {Append(s, x) : s \in SeqsOver(S, n - 1), x \in S}

FetchFunctions ==
    {[k \in 1..Len(shape) |-> [items |-> PageItems(k, shape[k][1]), has_more |-> shape[k][2]]] :
        shape \in UNION {SeqsOver(PageSizes \X BOOLEAN, n) : n \in 1..MaxPages}}

NoQuery == [key \in {} |-> 0]

\* the keyword arguments a caller gives _unpaginate besides func
CallerQueries == {NoQuery, [key \in {"limit"} |-> 10], [key \in {"page"} |-> 2]}

\* the query replaced by the page alone
WithPageOnly(query, page) == [key \in {"page"} |-> page]

\* query["page"] = page, without `page += 1`
WithPageFirst(query, page) ==
    [key \in DOMAIN query \cup {"page"} |-> IF key = "page" THEN 1 ELSE query[key]]

\* query["page"] = page
WithPage(query, page) ==
    [key \in DOMAIN query \cup {"page"} |-> IF key = "page" THEN page ELSE query[key]]

\* func(**query)
Fetch(pages, query) ==
    LET page == IF "page" \in DOMAIN query THEN query["page"] ELSE 1
    IN  pages[IF page <= Len(pages) THEN page ELSE Len(pages)]

\* items.extend(response.items), with only the new page kept
ExtendReplacing(items_, response) == response.items

\* items.extend(response.items)
Extend(items_, response) == items_ \o response.items

InitUnpaginate ==
    /\ now = 0
    /\ locks = {}
    /\ client_id = [i \in Inst |-> IF i = "a" THEN "X" ELSE "Y"]
    /\ current_sync_lock = [i \in Inst |-> NoLock]
    /\ pc = [i \in Inst |-> "idle"]
    /\ frame = [i \in Inst |-> NoFrame]
    /\ depth = [i \in Inst |-> 0]
    /\ last = NoStep("init")
    /\ items = NoItems
    /\ calc \in {[fn |-> "func", func |-> pages, query |-> query] :
                    pages \in FetchFunctions, query \in CallerQueries}

\* response = func(**query); items = response.items; page = 1
UnpaginateFirst ==
    /\ calc.fn = "func"
    /\ LET response == Fetch(calc.func, calc.query)
       IN  calc' = [fn |-> "unpaginate", func |-> calc.func, caller |-> calc.query,
                    query |-> calc.query, queries |-> <<calc.query>>,
                    more |-> <<response.has_more>>,
                    response |-> response, items |-> response.items, page |-> 1]
    /\ UNCHANGED <<now, locks, client_id, current_sync_lock, pc, frame, depth, last, items>>

\* one round of the loop: page += 1; query["page"] = page; response =
\* func(**query); items.extend(response.items)
UnpaginateMore ==
    /\ calc.fn = "unpaginate"
    /\ calc.response.has_more
    /\ calc.page < MaxPage
    /\ LET page == calc.page + 1
           query == WithPage(calc.query, page)
           response == Fetch(calc.func, query)
       IN  calc' = [calc EXCEPT !.page = page, !.query = query,
                                !.queries = Append(@, query),
                                !.more = Append(@, response.has_more),
                                !.response = response,
                                !.items = Extend(@, response)]
    /\ UNCHANGED <<now, locks, client_id, current_sync_lock, pc, frame, depth, last, items>>

\* return items
UnpaginateReturn ==
    /\ calc.fn = "unpaginate"
    /\ ~calc.response.has_more
    /\ calc' = [fn |-> "unpaginated", func |-> calc.func, caller |-> calc.caller,
                queries |-> calc.queries, more |-> calc.more, result |-> calc.items]
    /\ UNCHANGED <<now, locks, client_id, current_sync_lock, pc, frame, depth, last, items>>

NextUnpaginate == UnpaginateFirst \/ UnpaginateMore \/ UnpaginateReturn

SpecUnpaginate == InitUnpaginate /\ [][NextUnpaginate]_vars

\* the first page of func whose has_more is false
FirstLastPage(pages) ==
    CHOOSE k \in 1..Len(pages) :
        ~pages[k].has_more /\ \A m \in 1..(k - 1) : pages[m].has_more

SizesOf(pages) == [k \in 1..Len(pages) |-> Len(pages[k].items)]
HasMoreOf(pages) == [k \in 1..Len(pages) |-> pages[k].has_more]

\* C15: _unpaginate returns the items of every page up to and including the
\* first page whose has_more is false, concatenated in their order; for pages
\* of sizes 10, 10, 1 with has_more true, true, false these are 21 items.  (The
\* caller asks for no page of its own: the first fetch is of the first page.)
C15_Unpaginate ==
    (calc.fn = "unpaginated" /\ "page" \notin DOMAIN calc.caller) =>
        /\ calc.result =
              Concat([k \in 1..FirstLastPage(calc.func) |-> calc.func[k].items])
        /\ (SizesOf(calc.func) = <<10, 10, 1>> /\ HasMoreOf(calc.func) = <<TRUE, TRUE, FALSE>>)
              => Len(calc.result) = 21

C15_Witness ==
    /\ calc.fn = "unpaginated"
    /\ calc.caller = NoQuery
    /\ SizesOf(calc.func) = <<10, 10, 1>>
    /\ HasMoreOf(calc.func) = <<TRUE, TRUE, FALSE>>
    /\ Len(calc.result) = 21
    /\ calc.result[11] = <<2, 1>>

\* C30: the first fetch is made with the query of the caller as it is; the
\* k-th, for k >= 2, with that query and page = k (the other keys as the caller
\* gave them), so the page of every later fetch is one more than the one before;
\* a fetch is made after another only when the response before it had has_more
\* true, and _unpaginate returns only after a response whose has_more is false.
C30_PageSequence ==
    calc.fn \in {"unpaginate", "unpaginated"} =>
        /\ Len(calc.queries) = Len(calc.more)
        /\ calc.queries[1] = calc.caller
        /\ \A k \in 2..Len(calc.queries) :
              /\ DOMAIN calc.queries[k] = DOMAIN calc.caller \cup {"page"}
              /\ calc.queries[k]["page"] = k
              /\ \A key \in DOMAIN calc.caller \ {"page"} :
                    calc.queries[k][key] = calc.caller[key]
        /\ \A k \in 3..Len(calc.queries) :
              calc.queries[k]["page"] = calc.queries[k - 1]["page"] + 1
        /\ \A k \in 1..(Len(calc.more) - 1) : calc.more[k]
        /\ calc.fn = "unpaginated" => ~calc.more[Len(calc.more)]

\* three fetches of a caller that gave limit = 10: the third has page = 3
C30_Witness ==
    /\ calc.fn = "unpaginated"
    /\ calc.caller = [key \in {"limit"} |-> 10]
    /\ Len(calc.queries) = 3
    /\ calc.queries[2] = [key \in {"limit", "page"} |-> IF key = "page" THEN 2 ELSE 10]
    /\ calc.queries[3] = [key \in {"limit", "page"} |-> IF key = "page" THEN 3 ELSE 10]
    /\ calc.more = <<TRUE, TRUE, FALSE>>

----------------------------------------------------------------------------
(* server_api: the operations on items.  The store maps the name of an item to *)
(* its content; a note, notebook, tag or resource <id> is the item <id>.md,    *)
(* and the bytes of a resource are the item .resource/<id>.                    *)

\* pathlib.PurePosixPath(string): the root, "/" or "//", that the string starts with
RECURSIVE LeadingSlashes(_)
LeadingSlashes(s) ==
    IF s # <<>> /\ s[1] = "/" THEN 1 + LeadingSlashes(Tail(s)) ELSE 0

PathRoot(s) ==
    IF LeadingSlashes(s) = 0 THEN <<>>
    ELSE IF LeadingSlashes(s) = 2 THEN <<"/", "/">> ELSE <<"/">>

IsPart(x) == x # <<>> /\ x # <<".">>

\* the components of the path: empty ones and "." are dropped
PathParts(s) == SelectSeq(Split(s, <<"/">>), IsPart)

\* str(path)
PathStr(root, parts) ==
    IF root = <<>> /\ parts = <<>> THEN <<".">> ELSE root \o Join(parts, <<"/">>)

\* PurePath.suffix with the first dot of the name taken for the last one
PathSuffixFirstDot(name) ==
    IF 1 < Find(name, <<".">>) /\ Find(name, <<".">>) < Len(name)
    THEN SubSeq(name, Find(name, <<".">>), Len(name)) ELSE <<>>

\* PurePath.suffix: from the last dot of the name on, when that dot is neither the
\* first nor the last character of the name
PathSuffix(name) ==
    IF 1 < RFind(name, <<".">>) /\ RFind(name, <<".">>) < Len(name)
    THEN SubSeq(name, RFind(name, <<".">>), Len(name)) ELSE <<>>

\* the name with its suffix replaced by suffix
NameWithSuffix(name, suffix) ==
    SubSeq(name, 1, Len(name) - Len(PathSuffix(name))) \o suffix

\* str(pathlib.Path(string).with_suffix(suffix)); a path without a name raises
WithSuffix(string, suffix) ==
    IF PathParts(string) = <<>> THEN [error |-> "ValueError", value |-> <<>>]
    ELSE [error |-> "",
          value |-> PathStr(PathRoot(string),
                            SubSeq(PathParts(string), 1, Len(PathParts(string)) - 1)
                            \o <<NameWithSuffix(PathParts(string)[Len(PathParts(string))],
                                                suffix)>>)]

MdSuffix == <<".", "m", "d">>

\* add_suffix(string), suffix being ".md"
AddSuffix(string) == WithSuffix(string, MdSuffix).value

\* remove_suffix(string)
RemoveSuffix(string) == WithSuffix(string, <<>>).value

\* item["name"].endswith(".md")
EndsWithMd(name) ==
    Len(name) >= Len(MdSuffix)
    /\ SubSeq(name, Len(name) - Len(MdSuffix) + 1, Len(name)) = MdSuffix

ResourceBlobName(id_) == <<".resource/">> \o id_

NoteId == Rep("a", 32)
NotebookB == Rep("b", 32)
NotebookC == Rep("c", 32)
TagId == Rep("d", 32)
ResourceId == Rep("e", 32)
NoteTagId == Rep("f", 32)
RevisionId == Rep("9", 32)

\* the text add_note, add_notebook, ... wrote for a record with the fields f
Written(kind, f) == Serialize(kind, f, NoteTagId).text

\* the note of the store, as this library or another client of the server wrote it
NoteTexts ==
    {Written("NoteData", ("id" :> StrV(NoteId) @@ "parent_id" :> StrV(NotebookB) @@ "title" :> StrV(<<"t">>) @@ "body" :> StrV(<<"b">>))),
     Written("NoteData", ("id" :> StrV(NoteId) @@ "parent_id" :> StrV(NotebookB))),
     Written("NoteData", ("id" :> StrV(NoteId) @@ "parent_id" :> StrV(NotebookB) @@ "title" :> StrV(<<"t">>) @@ "body" :> StrV(<<"b", NL, NL, "c">>))),
     <<"t", NL, NL, "b", NL, NL>>
        \o Join(<<MetadataLine("id", NoteId), MetadataLine("parent_id", NotebookB),
                  MetadataLine("created_time", IsoStr(3)), MetadataLine("updated_time", IsoStr(3)),
                  MetadataLine("is_todo", <<"0">>), MetadataLine("type_", <<"1">>)>>, <<NL>>)}

ResourceTexts ==
    {Written("ResourceData", ("id" :> StrV(ResourceId) @@ "title" :> StrV(<<"f", ".png">>) @@ "filename" :> StrV(<<"f", ".png">>))),
     Written("ResourceData", ("id" :> StrV(ResourceId) @@ "title" :> StrV(<<"f", ".txt">>) @@ "filename" :> StrV(<<"f", ".txt">>)))}

\* the order in which the server lists the items it holds
NameOrder ==
    <<NameInfoJson, AddSuffix(NotebookB), AddSuffix(NotebookC), AddSuffix(NoteId),
      AddSuffix(TagId), AddSuffix(ResourceId), ResourceBlobName(ResourceId),
      AddSuffix(NoteTagId), AddSuffix(RevisionId)>>

RECURSIVE Listed(_, _)
Listed(its, k) ==
    IF k > Len(NameOrder) THEN <<>>
    ELSE (IF HasItem(its, NameOrder[k]) THEN <<NameOrder[k]>> ELSE <<>>) \o Listed(its, k + 1)

\* GET /api/items/root:/:/children: the names of the items
Children(its) == Listed(its, 1)

ItemStores ==
    {(NameInfoJson :> SyncTargetInfo @@ AddSuffix(NotebookB) :> Written("NotebookData", ("id" :> StrV(NotebookB) @@ "title" :> StrV(<<"B">>))) @@ AddSuffix(NotebookC) :> Written("NotebookData", ("id" :> StrV(NotebookC) @@ "title" :> StrV(<<"C">>) @@ "parent_id" :> StrV(NotebookB))) @@ AddSuffix(NoteId) :> note @@ AddSuffix(TagId) :> Written("TagData", ("id" :> StrV(TagId) @@ "title" :> StrV(<<"T">>))) @@ AddSuffix(ResourceId) :> resource @@ ResourceBlobName(ResourceId) :> <<"bytes">>) :
        note \in NoteTexts, resource \in ResourceTexts}

MaxOps == 2

\* the frame of an instance that runs no operation, after `done` operations
ItemIdle(done) == [call |-> "none", sent |-> <<>>, done |-> done]

ContentStatus(its, name, fails) ==
    IF fails THEN 500 ELSE IF HasItem(its, name) THEN 200 ELSE 404

\* _request: the guard of a request of instance i, and the refresh it makes
ItemGuard(i, path) == Guard(current_sync_lock[i], path, now)

GuardEffect(i, g) ==
    IF g = "refresh"
    THEN /\ locks' = StorePost(locks, LockTypeSync, LockClientTypeDesktop, client_id[i], now)
         /\ current_sync_lock' = [current_sync_lock EXCEPT ![i] =
                MkLock(LockTypeSync, LockClientTypeDesktop, client_id[i], now)]
    ELSE UNCHANGED <<locks, current_sync_lock>>

\* the requests of a guarded request: the POST of the refresh, then the request
Sent(i, g, method, path, status) ==
    frame[i].sent
    \o (IF g = "refresh" THEN <<HttpStatus("post", PathLocks, 200)>> ELSE <<>>)
    \o <<HttpStatus(method, path, status)>>

\* the record of a step of an operation on items: as ItemStep, http being every
\* request the operation has sent so far, with the frame the step started from
ItemOpStep(i, at, outcome, sent, result) ==
    [inst |-> i, op |-> frame[i].call, at |-> at, path |-> <<>>, outcome |-> outcome,
     http |-> sent, pre_lock |-> current_sync_lock[i], pre_locks |-> locks,
     pre_depth |-> depth[i], pre_items |-> items, result |-> result,
     frame |-> frame[i]]

\* the operation of i ends: it returns result, or raises the exception outcome
ItemEnd(i, at, outcome, sent, result) ==
    /\ pc' = [pc EXCEPT ![i] = "idle"]
    /\ frame' = [frame EXCEPT ![i] = ItemIdle(frame[i].done + 1)]
    /\ last' = ItemOpStep(i, at, outcome, sent, result)

\* the operation of i goes on at next_pc with the frame fr
ItemGoOn(i, at, next_pc, fr, sent) ==
    /\ pc' = [pc EXCEPT ![i] = next_pc]
    /\ frame' = [frame EXCEPT ![i] = [fr EXCEPT !.sent = sent]]
    /\ last' = [ItemOpStep(i, at, "pending", sent, "none") EXCEPT !.op = fr.call]

\* response = self.get(".../<name>:/content"); deserialize(response.text): what
\* the caller gets, the response being of status `status`
Fetched(its, name, status) ==
    IF status = 200 THEN Deserialize(its[name]) ELSE ErrorResult("HTTPError")

\* a request denied by the guard ends the operation
ItemDenied(i, at, g) ==
    /\ ItemEnd(i, at, GuardError(g), frame[i].sent, "none")
    /\ UNCHANGED <<locks, current_sync_lock, items>>

\* the setattr loop left out
OverrideNothing(f, data_) == f

\* setattr(note_data, key, value) for the items of data
Override(f, data_) == [n \in DOMAIN f \cup DOMAIN data_ |->
                          IF n \in DOMAIN data_ THEN data_[n] ELSE f[n]]

\* modify_note, modify_notebook, modify_tag: the call
CallModify(i, call, id_, data_) ==
    /\ pc[i] = "idle"
    /\ frame[i].done < MaxOps
    /\ ItemGoOn(i, "call", "modify_get",
                [call |-> call, id_ |-> id_, data |-> data_, sent |-> <<>>,
                 done |-> frame[i].done], <<>>)
    /\ UNCHANGED <<now, locks, client_id, current_sync_lock, depth, items, calc>>

\* modify_*: id_server = add_suffix(id_); note_data = self.get_note(id_server);
\* the setattr loop; request_data = note_data.serialize()
ModifyGet(i, fails) ==
    /\ pc[i] = "modify_get"
    /\ LET id_server == AddSuffix(frame[i].id_)
           name == AddSuffix(id_server)
           path == ItemContentPath(name)
           g == ItemGuard(i, path)
           status == ContentStatus(items, name, fails)
           sent == Sent(i, g, "get", path, status)
       IN  IF Denied(g) THEN ItemDenied(i, "modify_get", g)
           ELSE /\ GuardEffect(i, g)
                /\ items' = items
                /\ \E note_data \in {Fetched(items, name, status)} :
                   CASE note_data.tag = "error" ->
                          ItemEnd(i, "modify_get", note_data.error, sent, "none")
                     [] note_data.tag = "none" ->
                          ItemEnd(i, "modify_get", "AttributeError", sent, "none")
                     [] OTHER ->
                          \E fresh \in FreshIds :
                             ItemGoOn(i, "modify_get", "modify_put",
                                 [call |-> frame[i].call, id_ |-> frame[i].id_,
                                  data |-> frame[i].data, sent |-> <<>>,
                                  done |-> frame[i].done,
                                  request_data |->
                                      Serialize(note_data.kind,
                                                Override(note_data.f, frame[i].data),
                                                fresh).text],
                                 sent)
    /\ UNCHANGED <<now, client_id, depth, calc>>

\* modify_*: self.put(f"/api/items/root:/{id_server}:/content", data=request_data)
ModifyPut(i, status) ==
    /\ pc[i] = "modify_put"
    /\ LET name == AddSuffix(frame[i].id_)
           path == ItemContentPath(name)
           g == ItemGuard(i, path)
           sent == Sent(i, g, "put", path, status)
       IN  IF Denied(g) THEN ItemDenied(i, "modify_put", g)
           ELSE /\ GuardEffect(i, g)
                /\ IF status = 200
                   THEN /\ items' = ItemPut(items, name, frame[i].request_data)
                        /\ ItemEnd(i, "modify_put", "returned", sent, "none")
                   ELSE /\ items' = items
                        /\ ItemEnd(i, "modify_put", "HTTPError", sent, "none")
    /\ UNCHANGED <<now, client_id, depth, calc>>

\* f"{value}" of an optional string field
FormatOptional(f, name) == IF name \in DOMAIN f THEN Format(f[name]) ELSE <<"None">>

\* add_resource_to_note: the call
CallAddResourceToNote(i, resource_id, note_id) ==
    /\ pc[i] = "idle"
    /\ frame[i].done < MaxOps
    /\ ItemGoOn(i, "call", "attach_note",
                [call |-> "add_resource_to_note", resource_id |-> resource_id,
                 note_id |-> note_id, sent |-> <<>>, done |-> frame[i].done], <<>>)
    /\ UNCHANGED <<now, locks, client_id, current_sync_lock, depth, items, calc>>

\* add_resource_to_note: note = self.get_note(id_=note_id)
AttachGetNote(i, fails) ==
    /\ pc[i] = "attach_note"
    /\ LET name == AddSuffix(frame[i].note_id)
           path == ItemContentPath(name)
           g == ItemGuard(i, path)
           status == ContentStatus(items, name, fails)
           sent == Sent(i, g, "get", path, status)
       IN  IF Denied(g) THEN ItemDenied(i, "attach_note", g)
           ELSE /\ GuardEffect(i, g)
                /\ items' = items
                /\ \E note \in {Fetched(items, name, status)} :
                   IF note.tag = "error"
                   THEN ItemEnd(i, "attach_note", note.error, sent, "none")
                   ELSE ItemGoOn(i, "attach_note", "attach_resource",
                            [call |-> frame[i].call, resource_id |-> frame[i].resource_id,
                             note_id |-> frame[i].note_id, sent |-> <<>>,
                             done |-> frame[i].done, note |-> note],
                            sent)
    /\ UNCHANGED <<now, client_id, depth, calc>>

\* add_resource_to_note after the resource was fetched: the body with the
\* attachment, and the call of modify_note(note_id, body=body_with_attachment)
AttachBody(i, resource, note, sent) ==
    LET image_prefix == IF StartsWith(resource.f["mime"].v, <<"image/">>)
                        THEN <<"!">> ELSE <<>>
        original_body == IF "body" \in DOMAIN note.f THEN Format(note.f["body"])
                         ELSE <<>>
        body_with_attachment ==
            original_body \o <<NL>> \o image_prefix \o <<"[">>
            \o FormatOptional(resource.f, "title") \o <<"](:/">>
            \o frame[i].resource_id \o <<")">>
    IN  CASE resource.tag = "error" ->
               ItemEnd(i, "attach_resource", resource.error, sent, "none")
          [] resource.tag = "none" ->
               ItemEnd(i, "attach_resource", "AttributeError", sent, "none")
          [] "mime" \notin FieldSet(resource.kind) ->
               ItemEnd(i, "attach_resource", "AttributeError", sent, "none")
          [] "mime" \notin DOMAIN resource.f ->
               ItemEnd(i, "attach_resource", "AssertionError", sent, "none")
          [] note.tag = "none" \/ "body" \notin FieldSet(note.kind) ->
               ItemEnd(i, "attach_resource", "AttributeError", sent, "none")
          [] OTHER ->
               ItemGoOn(i, "attach_resource", "modify_get",
                        [call |-> frame[i].call, id_ |-> frame[i].note_id,
                         data |-> ("body" :> StrV(body_with_attachment)),
                         sent |-> <<>>, done |-> frame[i].done],
                        sent)

\* add_resource_to_note: resource = self.get_resource(id_=resource_id), the body
\* with the attachment, and the call of modify_note(note_id, body=...)
AttachGetResource(i, fails) ==
    /\ pc[i] = "attach_resource"
    /\ LET name == AddSuffix(frame[i].resource_id)
           path == ItemContentPath(name)
           g == ItemGuard(i, path)
           status == ContentStatus(items, name, fails)
           sent == Sent(i, g, "get", path, status)
       IN  IF Denied(g) THEN ItemDenied(i, "attach_resource", g)
           ELSE /\ GuardEffect(i, g)
                /\ items' = items
                /\ \E resource \in {Fetched(items, name, status)} :
                      AttachBody(i, resource, frame[i].note, sent)
    /\ UNCHANGED <<now, client_id, depth, calc>>

\* add_tag_to_note: the NoteTagData record is built and serialized
CallAddTagToNote(i, tag_id, note_id) ==
    /\ pc[i] = "idle"
    /\ frame[i].done < MaxOps
    /\ ~HasItem(items, AddSuffix(NoteTagId))
    /\ \A j \in Inst : pc[j] # "note_tag_put"
    /\ \E s \in {Serialize("NoteTagData",
                          NewRecord("NoteTagData",
                                    (<<"tag_id">> :> StrV(tag_id)
                                     @@ <<"note_id">> :> StrV(note_id))).f,
                          NoteTagId)} :
          ItemGoOn(i, "call", "note_tag_put",
                   [call |-> "add_tag_to_note", id_ |-> s.record.f["id"].v,
                    request_data |-> s.text, sent |-> <<>>, done |-> frame[i].done],
                   <<>>)
    /\ UNCHANGED <<now, locks, client_id, current_sync_lock, depth, items, calc>>

\* add_tag_to_note: self.put(".../{add_suffix(note_tag_data.id)}:/content", ...)
NoteTagPut(i, status) ==
    /\ pc[i] = "note_tag_put"
    /\ LET name == AddSuffix(frame[i].id_)
           path == ItemContentPath(name)
           g == ItemGuard(i, path)
           sent == Sent(i, g, "put", path, status)
       IN  IF Denied(g) THEN ItemDenied(i, "note_tag_put", g)
           ELSE /\ GuardEffect(i, g)
                /\ IF status = 200
                   THEN /\ items' = ItemPut(items, name, frame[i].request_data)
                        /\ ItemEnd(i, "note_tag_put", "returned", sent, frame[i].id_)
                   ELSE /\ items' = items
                        /\ ItemEnd(i, "note_tag_put", "HTTPError", sent, "none")
    /\ UNCHANGED <<now, client_id, depth, calc>>

\* the class a list operation keeps
ListKind(call) ==
    CASE call = "get_notes" -> "NoteData"
      [] call = "get_notebooks" -> "NotebookData"
      [] call = "get_tags" -> "TagData"
      [] call = "get_resources" -> "ResourceData"
      [] call \in {"get_revisions", "delete_all_revisions"} -> "RevisionData"

ListCalls == {"get_notes", "get_notebooks", "get_tags", "get_resources"}

\* isinstance(item_complete, dt.NoteData), with any record taken
KeptAnyRecord(item_complete, call) == item_complete.tag = "record"

\* isinstance(item_complete, dt.NoteData)
Kept(item_complete, call) ==
    item_complete.tag = "record" /\ item_complete.kind = ListKind(call)

\* the place, from the k-th on, of the next name of the listing that ends with
\* ".md"; 0 when there is none
NextMd(listing, k) ==
    LET hits == {m \in k..Len(listing) : EndsWithMd(listing[m])}
    IN  IF hits = {} THEN 0 ELSE CHOOSE m \in hits : \A n \in hits : m <= n

DataList(has_more, cursor, found) ==
    [has_more |-> has_more, cursor |-> cursor, items |-> found]

\* get_notes, get_notebooks, get_tags, get_resources: the call
CallList(i, call) ==
    /\ pc[i] = "idle"
    /\ frame[i].done < MaxOps
    /\ ItemGoOn(i, "call", "list_children",
                [call |-> call, sent |-> <<>>, done |-> frame[i].done], <<>>)
    /\ UNCHANGED <<now, locks, client_id, current_sync_lock, depth, items, calc>>

\* the list operation of i goes on to the k-th name of the listing, or returns
\* when k is 0; in delete_all_revisions the loop over the revisions follows
ListGoOn(i, at, fr, k, found, sent) ==
    IF k = 0
    THEN IF fr.call = "delete_all_revisions"
         THEN ItemGoOn(i, at, "delete_revisions", [fr EXCEPT !.found = found], sent)
         ELSE ItemEnd(i, at, "returned", sent, DataList(fr.has_more, fr.cursor, found))
    ELSE ItemGoOn(i, at, "list_item", [fr EXCEPT !.k = k, !.found = found], sent)

\* get_*s: response = self.get("/api/items/root:/:/children", query=query).json();
\* the server says has_more and cursor as it likes
ListChildren(i, status, has_more, cursor) ==
    /\ pc[i] = "list_children"
    /\ LET g == ItemGuard(i, PathChildren)
           sent == Sent(i, g, "get", PathChildren, status)
           listing == Children(items)
       IN  IF Denied(g) THEN ItemDenied(i, "list_children", g)
           ELSE /\ GuardEffect(i, g)
                /\ items' = items
                /\ IF status # 200
                   THEN ItemEnd(i, "list_children", "HTTPError", sent, "none")
                   ELSE ListGoOn(i, "list_children",
                            [call |-> frame[i].call, sent |-> <<>>, done |-> frame[i].done,
                             listing |-> listing, has_more |-> has_more,
                             cursor |-> cursor, k |-> 0, found |-> <<>>],
                            NextMd(listing, 1), <<>>, sent)
    /\ UNCHANGED <<now, client_id, depth, calc>>

\* get_*s, one round of the loop for a name that ends with ".md":
\* item_complete = self.get_note(remove_suffix(item["name"])), kept when it is of
\* the class of the operation
ListItem(i, fails) ==
    /\ pc[i] = "list_item"
    /\ LET fr == frame[i]
           name == AddSuffix(RemoveSuffix(fr.listing[fr.k]))
           path == ItemContentPath(name)
           g == ItemGuard(i, path)
           status == ContentStatus(items, name, fails)
           sent == Sent(i, g, "get", path, status)
       IN  IF Denied(g) THEN ItemDenied(i, "list_item", g)
           ELSE /\ GuardEffect(i, g)
                /\ items' = items
                /\ \E item_complete \in {Fetched(items, name, status)} :
                      IF item_complete.tag = "error"
                      THEN ItemEnd(i, "list_item", item_complete.error, sent, "none")
                      ELSE ListGoOn(i, "list_item", fr, NextMd(fr.listing, fr.k + 1),
                                    IF Kept(item_complete, fr.call)
                                    THEN Append(fr.found, item_complete) ELSE fr.found,
                                    sent)
    /\ UNCHANGED <<now, client_id, depth, calc>>

\* the overrides the callers of modify_note, modify_notebook, modify_tag give
ModifyCalls ==
    {[call |-> "modify_note", id_ |-> NoteId,
      data |-> ("parent_id" :> StrV(NotebookC))],
     [call |-> "modify_note", id_ |-> NoteId,
      data |-> ("title" :> StrV(<<"u">>) @@ "body" :> StrV(<<"x">>))],
     [call |-> "modify_notebook", id_ |-> NotebookB,
      data |-> ("parent_id" :> StrV(NotebookC))],
     [call |-> "modify_tag", id_ |-> TagId,
      data |-> ("title" :> StrV(<<"u">>))],
     [call |-> "modify_note", id_ |-> NoteTagId,
      data |-> ("title" :> StrV(<<"u">>))]}

Items(i) ==
    \/ \E m \in ModifyCalls : CallModify(i, m.call, m.id_, m.data)
    \/ \E fails \in BOOLEAN : ModifyGet(i, fails)
    \/ \E status \in {200, 500} : ModifyPut(i, status)
    \/ CallAddResourceToNote(i, ResourceId, NoteId)
    \/ \E fails \in BOOLEAN : AttachGetNote(i, fails)
    \/ \E fails \in BOOLEAN : AttachGetResource(i, fails)
    \/ CallAddTagToNote(i, TagId, NoteId)
    \/ \E status \in {200, 500} : NoteTagPut(i, status)
    \/ \E call \in ListCalls : CallList(i, call)
    \/ \E status \in {200, 500}, has_more \in BOOLEAN, cursor \in {"", "c"} :
          ListChildren(i, status, has_more, cursor)
    \/ \E fails \in BOOLEAN : ListItem(i, fails)

\* SpecItems: a client that holds its sync lock, as after sync_lock() was
\* entered, works on a store of two notebooks, a note, a tag and a resource
InitItems ==
    /\ now = 0
    /\ locks = {MkLock(LockTypeSync, LockClientTypeDesktop, cid, 0) : cid \in ClientIds}
    /\ client_id = [i \in Inst |-> IF i = "a" THEN "X" ELSE "Y"]
    /\ current_sync_lock = [i \in Inst |->
           MkLock(LockTypeSync, LockClientTypeDesktop, client_id[i], 0)]
    /\ pc = [i \in Inst |-> "idle"]
    /\ frame = [i \in Inst |-> ItemIdle(0)]
    /\ depth = [i \in Inst |-> 1]
    /\ last = NoStep("init")
    /\ items \in ItemStores
    /\ calc = NoCalc

ItemClients == {"a"}

NextItems == \E i \in ItemClients : Items(i)

SpecItems == InitItems /\ [][NextItems]_vars

ModifyOps == {"modify_note", "modify_notebook", "modify_tag"}

\* C16: modify_note, modify_notebook and modify_tag leave every field that the
\* overrides do not name as it was in the stored record: the record read back
\* after the operation has the overrides, and every other field of the record
\* read before it has its value; no other item of the store changes.
C16_ModifyKeepsOtherFields ==
    (last.op \in ModifyOps /\ last.outcome = "returned") =>
        \E name \in {AddSuffix(last.frame.id_)} :
        \E before \in {Deserialize(last.pre_items[name])} :
        \E after \in {Deserialize(items[name])} :
            /\ after.tag = "record"
            /\ after.kind = before.kind
            /\ \A n \in DOMAIN last.frame.data \cap FieldSet(before.kind) :
                  n \in DOMAIN after.f /\ after.f[n] = last.frame.data[n]
            /\ \A n \in DOMAIN before.f \ DOMAIN last.frame.data :
                  n \in DOMAIN after.f /\ after.f[n] = before.f[n]
            /\ \A other \in DOMAIN last.pre_items \ {name} :
                  other \in DOMAIN items /\ items[other] = last.pre_items[other]

\* the reference add_resource_to_note appends for a resource record
AttachmentOf(resource, resource_id) ==
    (IF resource.f["mime"].v[1] = "image/" THEN <<"!">> ELSE <<>>)
    \o <<"[">> \o resource.f["title"].v \o <<"](:/">> \o resource_id \o <<")">>

\* C17: add_resource_to_note(resource_id, note_id) sets the body of the note to
\* the body it had (empty when it had none), a newline, and "![title](:/id)"
\* for a resource whose mime starts with "image/", "[title](:/id)" otherwise;
\* every other field of the note is as it was.
C17_AttachBody ==
    (last.op = "add_resource_to_note" /\ last.outcome = "returned") =>
        \E name \in {AddSuffix(last.frame.id_)} :
        \E before \in {Deserialize(last.pre_items[name])} :
        \E resource \in {Deserialize(last.pre_items[AddSuffix(ResourceId)])} :
        \E after \in {Deserialize(items[name])} :
            /\ after.tag = "record"
            /\ "body" \in DOMAIN after.f
            /\ after.f["body"] =
                  StrV((IF "body" \in DOMAIN before.f THEN before.f["body"].v ELSE <<>>)
                       \o <<NL>> \o AttachmentOf(resource, ResourceId))
            /\ \A n \in DOMAIN before.f \ {"body"} :
                  n \in DOMAIN after.f /\ after.f[n] = before.f[n]

\* the records of the items `names` of the store its that are of the class kind
RECURSIVE RecordsOf(_, _, _)
RecordsOf(its, names, kind) ==
    IF names = <<>> THEN <<>>
    ELSE (IF Deserialize(its[Head(names)]).tag = "record"
             /\ Deserialize(its[Head(names)]).kind = kind
          THEN <<Deserialize(its[Head(names)])>> ELSE <<>>)
         \o RecordsOf(its, Tail(names), kind)

\* the requests a list operation has to send for the listing `names`
ListRequests(names) ==
    <<HttpStatus("get", PathChildren, 200)>>
    \o [k \in 1..Len(names) |-> HttpStatus("get", ItemContentPath(names[k]), 200)]

IsItemRequest(request) == request.path # PathLocks

\* C18: a list operation that returns has sent one request for the children and
\* then one content request for each listed name that ends with ".md", in the
\* order of the listing, and none for another name; it returns the fetched
\* records of its own class in that order, with has_more and cursor as the
\* listing gave them.
C18_ListOperation ==
    (last.op \in ListCalls /\ last.outcome = "returned") =>
        \E md \in {SelectSeq(Children(last.pre_items), EndsWithMd)} :
            /\ SelectSeq(last.http, IsItemRequest) = ListRequests(md)
            /\ last.result.items = RecordsOf(last.pre_items, md, ListKind(last.op))
            /\ last.result.has_more = last.frame.has_more
            /\ last.result.cursor = last.frame.cursor

\* get_tags has returned from a store that holds the NoteTag record that
\* add_tag_to_note wrote, besides a resource blob, and the listing said has_more
C18_Witness ==
    /\ last.op = "get_tags"
    /\ last.outcome = "returned"
    /\ HasItem(last.pre_items, AddSuffix(NoteTagId))
    /\ Deserialize(last.pre_items[AddSuffix(NoteTagId)]).kind = "NoteTagData"
    /\ HasItem(last.pre_items, ResourceBlobName(ResourceId))
    /\ Len(last.result.items) = 1
    /\ last.result.items[1].kind = "TagData"
    /\ last.result.has_more
    /\ last.result.cursor = "c"

\* the operation of the last step has ended with the HTTP error of its k-th
\* request, which is the last request it sent
RaisedAt(k) ==
    /\ k = Len(last.http)
    /\ last.outcome = "HTTPError"
    /\ pc[last.inst] \in {"idle", "failed"}

\* get_sync_version: the 404 answers it catches, to the reads of the two markers
HandledNotFound(k) ==
    /\ last.op = "construct"
    /\ last.http[k].method = "get"
    /\ last.http[k].path \in {PathInfoJson, PathVersionTxt}
    /\ last.http[k].status = 404

\* C20, as stated: every request that is answered with an error status ends its
\* operation with an HTTP error; it is the last request the operation sends.
C20_EveryErrorRaises ==
    \A k \in 1..Len(last.http) : ~last.http[k].ok => RaisedAt(k)

\* C20: every request that is answered with an error status ends its operation
\* with an HTTP error and is the last request the operation sends, except the
\* reads of info.json and of .sync/version.txt by get_sync_version that are
\* answered with 404: these mean that the marker is absent, and the operation
\* goes on with its next request.
C20_ErrorsPropagate ==
    \A k \in 1..Len(last.http) :
        ~last.http[k].ok =>
            IF HandledNotFound(k)
            THEN last.outcome = "pending" /\ pc[last.inst] \in {"ctor_txt", "ctor_put"}
            ELSE RaisedAt(k)

\* after the 404 to the read of info.json, the read of .sync/version.txt is
\* answered with 500 and the construction fails with the HTTP error
C20_Witness ==
    /\ last.op = "construct"
    /\ last.at = "get_txt"
    /\ last.http[1].status = 500
    /\ last.outcome = "HTTPError"
    /\ pc[last.inst] = "failed"

----------------------------------------------------------------------------
(* add_suffix and remove_suffix on their own, applied to every string of up to *)
(* MaxName characters of NameAlphabet                                          *)

MaxName == 5

NameAlphabet == {"a", ".", "/", "m", "d"}

NameInputs == UNION {[1..n -> NameAlphabet] : n \in 0..MaxName}

InitSuffix ==
    /\ now = 0
    /\ locks = {}
    /\ client_id = [i \in Inst |-> IF i = "a" THEN "X" ELSE "Y"]
    /\ current_sync_lock = [i \in Inst |-> NoLock]
    /\ pc = [i \in Inst |-> "idle"]
    /\ frame = [i \in Inst |-> NoFrame]
    /\ depth = [i \in Inst |-> 0]
    /\ last = NoStep("init")
    /\ items = NoItems
    /\ calc \in {[fn |-> "name", arg |-> string] : string \in NameInputs}

\* add_suffix(string)
CallAddSuffix ==
    /\ calc.fn = "name"
    /\ calc' = [fn |-> "add_suffix", arg |-> calc.arg,
                error |-> WithSuffix(calc.arg, MdSuffix).error,
                result |-> AddSuffix(calc.arg)]
    /\ UNCHANGED <<now, locks, client_id, current_sync_lock, pc, frame, depth, last, items>>

\* remove_suffix(string), string being the argument or what add_suffix returned
CallRemoveSuffix ==
    /\ \/ calc.fn = "name" /\ calc' = [fn |-> "remove_suffix", arg |-> calc.arg,
                                       error |-> WithSuffix(calc.arg, <<>>).error,
                                       result |-> RemoveSuffix(calc.arg)]
       \/ /\ calc.fn = "add_suffix"
          /\ calc.error = ""
          /\ calc' = [fn |-> "remove_after_add", arg |-> calc.arg,
                      error |-> WithSuffix(calc.result, <<>>).error,
                      result |-> RemoveSuffix(calc.result)]
    /\ UNCHANGED <<now, locks, client_id, current_sync_lock, pc, frame, depth, last, items>>

NextSuffix == CallAddSuffix \/ CallRemoveSuffix

SpecSuffix == InitSuffix /\ [][NextSuffix]_vars

\* a path as the server names an item: components separated by single slashes,
\* none of them empty or "."
NormalPath(s) ==
    /\ s # <<>>
    /\ \A k \in 1..Len(Split(s, <<"/">>)) : IsPart(Split(s, <<"/">>)[k])

LastPart(s) == Split(s, <<"/">>)[Len(Split(s, <<"/">>))]

\* a name without suffix, as an id is: no dot in its last component
PlainName(s) ==
    /\ NormalPath(s)
    /\ \A k \in 1..Len(LastPart(s)) : LastPart(s)[k] # "."

\* a name that carries the suffix ".md" after at least one other character
CarriesMd(s) ==
    /\ NormalPath(s)
    /\ Len(LastPart(s)) > Len(MdSuffix)
    /\ SubSeq(s, Len(s) - Len(MdSuffix) + 1, Len(s)) = MdSuffix

\* C21: for a name without suffix, add_suffix returns the name followed by ".md"
\* and remove_suffix of that returns the name; add_suffix returns a name that
\* carries ".md" unchanged; remove_suffix returns a name without suffix unchanged.
C21_SuffixInverse ==
    /\ (calc.fn = "add_suffix" /\ PlainName(calc.arg)) =>
           calc.error = "" /\ calc.result = calc.arg \o MdSuffix
    /\ (calc.fn = "remove_after_add" /\ PlainName(calc.arg)) =>
           calc.error = "" /\ calc.result = calc.arg
    /\ (calc.fn = "add_suffix" /\ CarriesMd(calc.arg)) =>
           calc.error = "" /\ calc.result = calc.arg
    /\ (calc.fn = "remove_suffix" /\ PlainName(calc.arg)) =>
           calc.error = "" /\ calc.result = calc.arg

\* add_suffix has returned a name with two dots that carries ".md" unchanged
C21_Witness ==
    /\ calc.fn = "add_suffix"
    /\ calc.arg = <<"a", ".", ".", "m", "d">>
    /\ calc.result = calc.arg

----------------------------------------------------------------------------
(* The acquisition, one attempt at a time *)

\* the first listing of an attempt of _acquire_sync_lock has been answered
AttemptListed ==
    /\ last.op \in {"sync_lock", "acquire"}
    /\ last.at = "is_locked"
    /\ last.http = <<Http("get", PathLocks, TRUE)>>

\* the listing held an active SYNC lock of the client_id of the instance
OwnIdSyncActive(ls) ==
    \E l \in ls : /\ l.type = LockTypeSync
                  /\ l.clientId = client_id[last.inst]
                  /\ l.updatedTime + LockTtl > now

\* C22: an attempt whose listing holds an active EXCLUSIVE lock, or an active SYNC
\* lock of the client's own client_id, takes the target for locked: it goes on to
\* no create request, and the lock records of the store and current_sync_lock
\* are after it what they were before it.
C22_LockedAttemptCreatesNothing ==
    (AttemptListed /\ (ExclusiveActive(last.pre_locks) \/ OwnIdSyncActive(last.pre_locks))) =>
        /\ pc[last.inst] \in {"idle", "acq_check"}
        /\ locks = last.pre_locks
        /\ current_sync_lock[last.inst] = last.pre_lock

\* an instance without handle has found an active SYNC lock of its own client_id
\* and no EXCLUSIVE lock, and goes on to its next attempt
C22_Witness ==
    /\ AttemptListed
    /\ OwnIdSyncActive(last.pre_locks)
    /\ ~ExclusiveActive(last.pre_locks)
    /\ last.pre_lock = NoLock
    /\ current_sync_lock[last.inst] = NoLock
    /\ pc[last.inst] = "acq_check"

\* the step is a step of an acquisition, at the place `at` of _acquire_sync_lock
AcquisitionAt(at) ==
    /\ last.op \in {"sync_lock", "acquire"}
    /\ last.at = at

\* C23: the re-listing after the create that holds an active EXCLUSIVE lock clears
\* current_sync_lock, and the next request is the delete of the client's own lock
\* record; that delete removes the record just created and no other, and then the
\* next attempt starts or, the attempts being exhausted, the call ends without a
\* lock and without entering the session.  A call never ends holding the lock at
\* a re-listing that held an active EXCLUSIVE lock.
C23_RaceClosingCheck ==
    /\ (AcquisitionAt("recheck") /\ last.http = <<Http("get", PathLocks, TRUE)>>
        /\ ExclusiveActive(last.pre_locks)) =>
           /\ current_sync_lock[last.inst] = NoLock
           /\ locks = last.pre_locks
           /\ last.outcome = "pending"
           /\ pc[last.inst] = "acq_delete"
    /\ (AcquisitionAt("delete") /\ last.http # <<>>) =>
           /\ last.http = <<Http("delete",
                                 <<"/api/locks", "/", "1", "_", "1", "_", client_id[last.inst]>>,
                                 last.http[1].ok)>>
           /\ current_sync_lock[last.inst] = NoLock
           /\ last.http[1].ok =>
                 /\ locks = last.pre_locks \ OwnRecords(last.inst, last.pre_locks)
                 /\ \/ pc[last.inst] = "acq_check" /\ last.outcome = "pending"
                    \/ /\ pc[last.inst] = "idle"
                       /\ last.outcome = (IF last.op = "sync_lock"
                                          THEN "LockError_acquire" ELSE "returned")
                       /\ depth[last.inst] = last.pre_depth
    /\ (AcquisitionAt("recheck") /\ last.outcome \in {"returned", "entered"}) =>
           ~ExclusiveActive(last.pre_locks)

\* _acquire_sync_lock(tries) with attempts left has deleted the lock it created,
\* an EXCLUSIVE lock being active, and goes on to its next attempt
C23_Witness ==
    /\ AcquisitionAt("delete")
    /\ last.op = "acquire"
    /\ last.http[1].ok
    /\ ExclusiveActive(locks)
    /\ OwnRecords(last.inst, last.pre_locks) # {}
    /\ OwnRecords(last.inst, locks) = {}
    /\ pc[last.inst] = "acq_check"

----------------------------------------------------------------------------
(* _acquire_sync_lock on its own: a caller that calls it with 1..MaxTries      *)
(* tries and releases the lock, while another client writes and removes an     *)
(* EXCLUSIVE lock and time passes.  The call runs on by itself: a request that *)
(* was sent is answered, and the step after it is taken.                       *)

Running(i) == pc[i] \in {"acq_check", "acq_add", "acq_recheck", "acq_delete"}

\* the steps of a running call of _acquire_sync_lock
AcquireStep(i) ==
    \/ \E ok \in BOOLEAN : NextAttempt(i, ok)
    \/ \E ok \in BOOLEAN : AddLock(i, ok)
    \/ \E ok \in BOOLEAN : Recheck(i, ok)
    \/ \E ok \in BOOLEAN : DeleteAfterRecheck(i, ok)

NextAcquire ==
    \/ Tick
    \/ OtherPost(ExclusiveKey)
    \/ OtherDelete(ExclusiveKey)
    \/ \E tries \in 1..MaxTries, ok \in BOOLEAN : AcquireSyncLock("a", tries, ok)
    \/ \E ok \in BOOLEAN : DeleteOwnLock("a", ok)
    \/ AcquireStep("a")

SpecAcquire == Init /\ [][NextAcquire]_vars /\ WF_vars(AcquireStep("a"))

\* the passes of the loop a running call has completed are fewer than tries; it
\* has created at most one lock in each pass it has started; it has slept after
\* each completed pass, 0, 1, 2, ... seconds
AttemptsBounded(i) ==
    Running(i) =>
        /\ frame[i].delay < frame[i].tries
        /\ frame[i].created <= frame[i].delay + 1
        /\ pc[i] \in {"acq_check", "acq_add"} => frame[i].created <= frame[i].delay
        /\ frame[i].slept = [k \in 1..frame[i].delay |-> k - 1]

----------------------------------------------------------------------------
(* The endpoints that bypass the guard *)

\* the endpoints the bypass is written for: login, the lock list/create and
\* delete endpoints, and the two version markers of the sync target
IsLockEndpoint(path) ==
    \/ path = PathLocks
    \/ \E l \in {LockTypeSync, LockTypeExclusive},
          c \in {LockClientTypeDesktop, LockClientTypeMobile, LockClientTypeCli},
          cid \in ClientIds \cup {OtherClient} : path = PathLock(l, c, cid)

AllowListed(path) ==
    \/ path = PathLogin
    \/ IsLockEndpoint(path)
    \/ path = PathInfoJson
    \/ path = PathVersionTxt

\* the step is the first one of a call of _request
RequestMade == last.op = "request" /\ last.at # "send_after_refresh"

GuardLockErrors == {"LockError_no_lock", "LockError_expired"}

\* C25: a request to /login, to a lock endpoint or to one of the two version
\* markers is sent whatever the lock state; acquisition, refresh and release
\* never end with the guard's LockError; a request to any other path is
\* guarded: with no handle, or with a handle past its TTL, it is denied.
C25_AllowList ==
    /\ (RequestMade /\ AllowListed(last.path)) =>
          /\ last.at = "send"
          /\ Len(last.http) = 1 /\ last.http[1].path = last.path
          /\ NoLockState
    /\ (last.inst \in Inst /\ last.op # "request") =>
          last.outcome \notin GuardLockErrors
    /\ (last.op = "request" /\ last.at \in {"refresh", "send_after_refresh"}) =>
          last.outcome \notin GuardLockErrors
    /\ (RequestMade /\ ~AllowListed(last.path)) =>
          /\ last.pre_lock = NoLock => last.outcome = "LockError_no_lock"
          /\ (last.pre_lock # NoLock /\ ~IsLockActive(last.pre_lock.updatedTime, now))
                => last.outcome = "LockError_expired"

\* the parts of C25 the code keeps: the requests of the allow-list are sent, and
\* acquisition, refresh and release never end with the guard's LockError
C25_AllowListedSent ==
    /\ (RequestMade /\ AllowListed(last.path)) =>
          /\ last.at = "send"
          /\ Len(last.http) = 1 /\ last.http[1].path = last.path
          /\ NoLockState
    /\ (last.inst \in Inst /\ last.op # "request") =>
          last.outcome \notin GuardLockErrors
    /\ (last.op = "request" /\ last.at \in {"refresh", "send_after_refresh"}) =>
          last.outcome \notin GuardLockErrors

\* a resource file whose id is info.json is requested with no lock, and sent
C25_Bypassed ==
    /\ RequestMade
    /\ last.path = PathResourceFile("info.json")
    /\ last.pre_lock = NoLock
    /\ last.at = "send"

----------------------------------------------------------------------------
(* The refresh of the held lock.  Nothing in ApiBase runs between the calls   *)
(* of the caller; the clock advances by itself.                               *)

SpecHolder == Init /\ [][Next]_vars /\ WF_vars(Tick)

HandleOf(i, u) == MkLock(LockTypeSync, LockClientTypeDesktop, client_id[i], u)

\* a step that re-writes a held handle of instance i: it is a step of a call of
\* i, and when the call is a request it is the refresh of a guarded request made
\* after the interval elapsed, while the handle was active
RefreshedInline(i) ==
    (current_sync_lock'[i] # current_sync_lock[i]) =>
        /\ last'.inst = i
        /\ last'.op = "request" =>
              /\ last'.at = "refresh"
              /\ ~Exempt(last'.path)
              /\ current_sync_lock[i] # NoLock
              /\ IsLockActive(current_sync_lock[i].updatedTime, now)
              /\ current_sync_lock[i].updatedTime + LockAutoRefreshInterval < now
              /\ current_sync_lock'[i] = HandleOf(i, now)
              /\ current_sync_lock'[i] \in locks'
              /\ last'.http = <<Http("post", PathLocks, TRUE)>>

\* a step of a request writes the store in its refresh only
StoreWrittenInRefresh ==
    (last'.op = "request" /\ locks' # locks) => last'.at = "refresh"

\* a guarded request made with a handle past its TTL fails with LockError and
\* leaves the handle as it is, so the next one fails too
ExpiredStaysExpired ==
    (/\ GuardedRequestMade
     /\ last.pre_lock # NoLock
     /\ ~IsLockActive(last.pre_lock.updatedTime, now)) =>
        /\ last.outcome = "LockError_expired"
        /\ current_sync_lock[last.inst] = last.pre_lock
        /\ ~IsLockActive(current_sync_lock[last.inst].updatedTime, now)

\* C26: the handle is re-written by a request only in the refresh of a guarded
\* request made after the refresh interval elapsed, and by no step that is not a
\* call of the holder; a held handle that no call replaces becomes inactive once
\* its TTL has passed, and from then on every guarded request of the holder
\* fails with LockError.
C26_InlineRefreshOnly ==
    /\ [][\A i \in Inst : RefreshedInline(i)]_vars
    /\ [][StoreWrittenInRefresh]_vars
    /\ []ExpiredStaysExpired
    /\ \A u \in 0..(MaxTime - LockTtl) :
          (current_sync_lock["a"] = HandleOf("a", u))
              ~> \/ current_sync_lock["a"] # HandleOf("a", u)
                 \/ ~IsLockActive(u, now)

\* the holder's request is denied after the TTL, the record in the store being
\* the one of the acquisition still
C26_Witness ==
    /\ GuardedRequestMade
    /\ last.path = PathItem
    /\ last.pre_lock # NoLock
    /\ last.pre_lock.updatedTime + LockTtl < now
    /\ last.pre_lock \in locks
    /\ current_sync_lock[last.inst] = last.pre_lock
    /\ last.outcome = "LockError_expired"

----------------------------------------------------------------------------
(* serialize called again on a record, and the add operations: add_note,      *)
(* add_notebook, add_resource, add_tag and add_tag_to_note build the record   *)
(* from their arguments, serialize it and put the text.  calc holds the call. *)

AddCalls == {"add_note", "add_notebook", "add_resource", "add_tag", "add_tag_to_note"}

AddKind(call) ==
    CASE call = "add_note" -> "NoteData"
      [] call = "add_notebook" -> "NotebookData"
      [] call = "add_resource" -> "ResourceData"
      [] call = "add_tag" -> "TagData"
      [] call = "add_tag_to_note" -> "NoteTagData"

\* the arguments the signature of the operation takes
AddAccepts(call, kwargs) ==
    CASE call = "add_note" -> <<"parent_id">> \in DOMAIN kwargs
      [] call = "add_resource" -> <<"filename">> \in DOMAIN kwargs
      [] call = "add_tag_to_note" -> DOMAIN kwargs = {<<"tag_id">>, <<"note_id">>}
      [] OTHER -> TRUE

\* add_resource: title = str(data.pop("title", filename))
AddKwargs(call, kwargs) ==
    IF call = "add_resource" /\ <<"title">> \notin DOMAIN kwargs
    THEN Merge(kwargs, [key \in {<<"title">>} |-> kwargs[<<"filename">>]])
    ELSE kwargs

PutRequest(path, data_, status) ==
    [method |-> "put", path |-> path, data |-> data_, status |-> status]

\* the call as it ended: what it returned or raised, the requests it sent, and
\* the record as serialize left it
Added(call, record, text, outcome, requests) ==
    [fn |-> "add", call |-> call, kind |-> calc.kind, kwargs |-> calc.kwargs,
     record |-> record, text |-> text, outcome |-> outcome,
     result |-> IF outcome = "returned" THEN record.f["id"].v ELSE <<>>,
     requests |-> requests]

\* self.put(".../{add_suffix(id)}:/content", data=request_data), and for a resource
\* self.put(".../.resource/{id}:/content", data=pathlib.Path(filename).read_bytes());
\* the lock the first put found valid, or refreshed, is valid for the second
AddPut(call, s, status, blob) ==
    LET id_ == s.record.f["id"].v
        name == AddSuffix(id_)
        path == ItemContentPath(name)
        g == Guard(current_sync_lock["a"], path, now)
        first == PutRequest(path, s.text, status)
        second == PutRequest(ItemContentPath(ResourceBlobName(id_)), <<"bytes">>,
                             IF blob = "sent" THEN 200 ELSE 500)
    IN  IF WithSuffix(id_, MdSuffix).error # ""
        THEN /\ calc' = Added(call, s.record, s.text, WithSuffix(id_, MdSuffix).error, <<>>)
             /\ UNCHANGED <<locks, current_sync_lock, items>>
        ELSE IF Denied(g)
        THEN /\ calc' = Added(call, s.record, s.text, GuardError(g), <<>>)
             /\ UNCHANGED <<locks, current_sync_lock, items>>
        ELSE /\ GuardEffect("a", g)
             /\ IF status # 200
                THEN /\ calc' = Added(call, s.record, s.text, "HTTPError", <<first>>)
                     /\ items' = items
                ELSE IF call # "add_resource"
                THEN /\ calc' = Added(call, s.record, s.text, "returned", <<first>>)
                     /\ items' = ItemPut(items, name, s.text)
                ELSE IF blob = "unreadable"
                THEN /\ calc' = Added(call, s.record, s.text, "OSError", <<first>>)
                     /\ items' = ItemPut(items, name, s.text)
                ELSE IF blob = "failed"
                THEN /\ calc' = Added(call, s.record, s.text, "HTTPError", <<first, second>>)
                     /\ items' = ItemPut(items, name, s.text)
                ELSE /\ calc' = Added(call, s.record, s.text, "returned", <<first, second>>)
                     /\ items' = ItemPut(ItemPut(items, name, s.text),
                                         ResourceBlobName(id_), <<"bytes">>)

\* id = api.add_...(**kwargs)
CallAdd ==
    /\ calc.fn = "kwargs"
    /\ \E call \in AddCalls, fresh \in FreshIds, status \in {200, 500},
          blob \in {"sent", "failed", "unreadable"} :
          /\ AddKind(call) = calc.kind
          /\ AddAccepts(call, calc.kwargs)
          /\ call # "add_resource" => blob = "sent"
          /\ \E built \in {NewRecord(calc.kind, AddKwargs(call, calc.kwargs))} :
                IF built.tag # "record"
                THEN /\ calc' = Added(call, built, <<>>, built.error, <<>>)
                     /\ UNCHANGED <<locks, current_sync_lock, items>>
                ELSE \E s \in {Serialize(calc.kind, built.f, fresh)} :
                        \* assert ..._data.id is not None
                        IF "id" \notin DOMAIN s.record.f
                        THEN /\ calc' = Added(call, s.record, s.text, "AssertionError", <<>>)
                             /\ UNCHANGED <<locks, current_sync_lock, items>>
                        ELSE AddPut(call, s, status, blob)
    /\ UNCHANGED <<now, client_id, pc, frame, depth, last>>

\* /api/items/root:/<name>:
ItemDeletePath(name) == <<"/api/items/root:/">> \o name \o <<":">>

DeleteStatus(its, name, fails) ==
    IF fails THEN 500 ELSE IF HasItem(its, name) THEN 200 ELSE 404

\* the call of delete_resource as it ended
Deleted(id_, outcome, requests) ==
    [fn |-> "delete_resource", id_ |-> id_, outcome |-> outcome, requests |-> requests]

\* api.delete_resource(id_) for the id of the add_resource before it:
\* self.delete(f"/api/items/root:/{add_suffix(id_)}:"), then
\* self.delete(f"/api/items/root:/.resource/{id_}:")
CallDeleteResource ==
    /\ calc.fn = "add"
    /\ calc.call = "add_resource"
    /\ calc.outcome \in {"returned", "OSError", "HTTPError"}
    /\ \E first_fails \in BOOLEAN, second_fails \in BOOLEAN :
          LET id_ == calc.record.f["id"].v
              name == AddSuffix(id_)
              g == Guard(current_sync_lock["a"], ItemDeletePath(name), now)
              first == HttpStatus("delete", ItemDeletePath(name),
                                  DeleteStatus(items, name, first_fails))
              second == HttpStatus("delete", ItemDeletePath(ResourceBlobName(id_)),
                                   DeleteStatus(items, ResourceBlobName(id_), second_fails))
          IN  IF Denied(g)
              THEN /\ calc' = Deleted(id_, GuardError(g), <<>>)
                   /\ UNCHANGED <<locks, current_sync_lock, items>>
              ELSE /\ GuardEffect("a", g)
                   /\ IF ~first.ok
                      THEN /\ calc' = Deleted(id_, "HTTPError", <<first>>)
                           /\ items' = items
                      ELSE IF ~second.ok
                      THEN /\ calc' = Deleted(id_, "HTTPError", <<first, second>>)
                           /\ items' = ItemDelete(items, name)
                      ELSE /\ calc' = Deleted(id_, "returned", <<first, second>>)
                           /\ items' = ItemDelete(ItemDelete(items, name),
                                                  ResourceBlobName(id_))
    /\ UNCHANGED <<now, client_id, pc, frame, depth, last>>

\* text = record.serialize(), a second time on the record the first call left
CallSerializeAgain ==
    /\ calc.fn = "serialize"
    /\ \E fresh \in FreshIds :
          \E s \in {Serialize(calc.kind, calc.record.f, fresh)} :
             calc' = [fn |-> "serialize_again", kind |-> calc.kind, fresh |-> calc.fresh,
                      before |-> calc.before, record |-> calc.record, text |-> calc.text,
                      fresh_again |-> fresh, again |-> s]
    /\ UNCHANGED <<now, locks, client_id, current_sync_lock, pc, frame, depth, last, items>>

\* the caller holds the sync lock, or holds none
InitAdd ==
    /\ now = 0
    /\ client_id = [i \in Inst |-> IF i = "a" THEN "X" ELSE "Y"]
    /\ \E held \in BOOLEAN :
          /\ locks = IF held THEN {MkLock(LockTypeSync, LockClientTypeDesktop, "X", 0)}
                     ELSE {}
          /\ current_sync_lock = [i \in Inst |->
                 IF held /\ i = "a" THEN MkLock(LockTypeSync, LockClientTypeDesktop, "X", 0)
                 ELSE NoLock]
    /\ pc = [i \in Inst |-> "idle"]
    /\ frame = [i \in Inst |-> NoFrame]
    /\ depth = [i \in Inst |-> 0]
    /\ last = NoStep("init")
    /\ items = NoItems
    /\ calc \in UNION {{[fn |-> "kwargs", kind |-> kind, kwargs |-> kw] :
                            kw \in KwargsOf(kind)} : kind \in Kinds}

NextAdd ==
    \/ CallNewRecord
    \/ CallSerialize
    \/ CallSerializeAgain
    \/ CallAdd
    \/ CallDeleteResource

SpecAdd == InitAdd /\ [][NextAdd]_vars

\* the lines of the metadata block whose key is `key`
KeyLines(text, key) ==
    {k \in 1..Len(MetadataLinesOf(text)) :
        /\ Len(MetadataLinesOf(text)[k]) >= 1 + Len(KeySep)
        /\ SubSeq(MetadataLinesOf(text)[k], 1, 1 + Len(KeySep)) = <<key>> \o KeySep}

\* the metadata block has one line of the key, and it is `key: value`
OneLine(text, key, value) ==
    /\ Cardinality(KeyLines(text, key)) = 1
    /\ \A k \in KeyLines(text, key) : MetadataLinesOf(text)[k] = MetadataLine(key, value)

HexId(s) == Len(s) = 32 /\ \A k \in 1..Len(s) : s[k] \in HexLower

\* C29: the text serialize returns has an id line with the id of the record, a
\* type_ line with the discriminator of the kind, and an updated_time line whose
\* value is empty when the time is unset; when the id was unset it is the fresh
\* 32-character hex id, assigned to the record, else the id given; a second
\* serialize of the record writes the same id; an add operation that returns,
\* returns the id of the record, which is the name (before .md) in the path of
\* its put and the id line of the text it puts.
C29_SerializeIdentity ==
    /\ calc.fn \in {"serialize", "serialize_again"} =>
          /\ "id" \in DOMAIN calc.record.f
          /\ OneLine(calc.text, "id", Format(calc.record.f["id"]))
          /\ OneLine(calc.text, "type_", <<NumeralOf(ItemTypeOf(calc.kind))>>)
          /\ OneLine(calc.text, "updated_time",
                     IF "updated_time" \in DOMAIN calc.before.f
                     THEN Format(calc.before.f["updated_time"]) ELSE <<>>)
          /\ IF "id" \in DOMAIN calc.before.f
             THEN calc.record.f["id"] = calc.before.f["id"]
             ELSE calc.record.f["id"] = StrV(calc.fresh) /\ HexId(calc.fresh)
    /\ calc.fn = "serialize_again" =>
          /\ calc.again.record.f["id"] = calc.record.f["id"]
          /\ OneLine(calc.again.text, "id", Format(calc.record.f["id"]))
    /\ (calc.fn = "add" /\ calc.outcome = "returned") =>
          /\ calc.result = calc.record.f["id"].v
          /\ <<"id">> \notin DOMAIN calc.kwargs => HexId(calc.result)
          /\ calc.requests[1].path =
                <<"/api/items/root:/">> \o calc.result \o MdSuffix \o <<":/content">>
          /\ OneLine(calc.requests[1].data, "id", calc.result)
          /\ calc.requests[1].data = calc.text
          /\ items[calc.result \o MdSuffix] = calc.text

\* a record built without id is serialized twice, uuid4 drawing differently
C29_Witness ==
    /\ calc.fn = "serialize_again"
    /\ "id" \notin DOMAIN calc.before.f
    /\ "updated_time" \notin DOMAIN calc.before.f
    /\ calc.fresh_again # calc.fresh
    /\ calc.again.text = calc.text
    /\ OneLine(calc.text, "id", calc.fresh)

\* add_note returns the id it drew
C29_AddReturns ==
    /\ calc.fn = "add"
    /\ calc.call = "add_note"
    /\ calc.outcome = "returned"
    /\ <<"id">> \notin DOMAIN calc.kwargs
    /\ HexId(calc.result)

----------------------------------------------------------------------------
(* The guard by the age of the held lock *)

\* the age of the handle the request found
Age == now - last.pre_lock.updatedTime

\* C31: a guarded request made with a handle of age a has exactly one of three
\* outcomes.  a <= lock_auto_refresh_interval: it is sent and no lock is
\* written.  lock_auto_refresh_interval < a < lock_ttl: one POST /api/locks is
\* sent first, and the request follows it.  a >= lock_ttl: LockError, nothing is
\* sent; so an expired handle is never refreshed.
C31_ThreeOutcomes ==
    /\ (GuardedRequestMade /\ last.pre_lock # NoLock) =>
          /\ last.at \in {"send", "refresh", "guard"}
          /\ last.at = "send" <=> Age <= LockAutoRefreshInterval
          /\ last.at = "refresh" <=> (LockAutoRefreshInterval < Age /\ Age < LockTtl)
          /\ last.at = "guard" <=> Age >= LockTtl
          /\ last.at = "send" =>
                /\ last.http = <<Http(last.http[1].method, last.path, last.http[1].ok)>>
                /\ NoLockState
          /\ last.at = "refresh" =>
                /\ last.http = <<Http("post", PathLocks, last.http[1].ok)>>
                /\ last.http[1].ok =>
                      /\ pc[last.inst] = "req_send"
                      /\ current_sync_lock[last.inst] =
                            HandleOf(last.inst, now)
                /\ ~last.http[1].ok => NoLockState /\ last.outcome = "HTTPError"
          /\ last.at = "guard" =>
                /\ last.outcome = "LockError_expired"
                /\ last.http = <<>>
                /\ NoLockState
    /\ (last.op = "request" /\ last.at = "send_after_refresh") =>
          /\ last.http = <<Http(last.http[1].method, last.path, last.http[1].ok)>>
          /\ NoLockState
          /\ last.pre_lock # NoLock

\* a request made one tick before the TTL is refreshed
C31_Witness ==
    /\ GuardedRequestMade
    /\ last.path = PathItem
    /\ last.pre_lock # NoLock
    /\ Age = LockTtl - 1
    /\ Age > LockAutoRefreshInterval
    /\ last.at = "refresh"
    /\ pc[last.inst] = "req_send"

----------------------------------------------------------------------------
(* sync_lock() on an instance that has a handle already *)

\* C32: sync_lock() enters its body only when its own acquisition created the
\* lock (the call ends at the re-check that follows the creation); a call whose
\* acquisition created nothing, made with a handle set, raises LockError, leaves
\* the store as it is and enters nothing.
C32_EntersOnlyOwnCreation ==
    /\ (last.op = "sync_lock" /\ last.outcome = "entered") => last.at = "recheck"
    /\ (/\ last.op = "sync_lock"
        /\ last.at = "is_locked"
        /\ last.http = <<Http("get", PathLocks, TRUE)>>
        /\ pc[last.inst] = "idle"
        /\ last.pre_lock # NoLock) =>
           /\ last.outcome = "LockError_acquire"
           /\ locks = last.pre_locks
           /\ depth[last.inst] = last.pre_depth

\* a session is entered inside a session, the acquisition having created nothing
C32_NestedEntered ==
    /\ last.op = "sync_lock"
    /\ last.at = "is_locked"
    /\ last.outcome = "entered"
    /\ last.pre_depth = 1
    /\ depth[last.inst] = 2
    /\ current_sync_lock[last.inst] = last.pre_lock
    /\ locks = last.pre_locks

\* the exit of the inner session removes the lock of the enclosing one
C32_EnclosingLockDeleted ==
    /\ last.op = "sync_lock_exit"
    /\ last.at = "delete"
    /\ last.pre_depth = 2
    /\ depth[last.inst] = 1
    /\ last.pre_lock \in last.pre_locks
    /\ OwnRecords(last.inst, locks) = {}
    /\ current_sync_lock[last.inst] = NoLock

----------------------------------------------------------------------------
(* Guarded requests and the EXCLUSIVE locks of other clients *)

\* a guarded request was sent in the step
GuardedRequestSent ==
    /\ last.op = "request"
    /\ last.at \in {"send", "send_after_refresh"}
    /\ ~Exempt(last.path)

\* C33 as claimed: no guarded request of a holder is sent while the store has an
\* active EXCLUSIVE lock.
C33_NoSendUnderExclusive ==
    GuardedRequestSent => ~ExclusiveActive(last.pre_locks)

\* C33, amended: the guard decides by the handle alone.  A guarded request is
\* denied exactly when the instance has no handle or the handle is past its
\* TTL, whatever locks the store holds; a request lists no locks, and the POST
\* of a refresh is its only request to the lock endpoints; the refresh re-
\* writes the record of the holder and leaves the records of other keys, an
\* EXCLUSIVE lock among them, as they are.
C33_GuardByHandleOnly ==
    /\ GuardedRequestMade =>
          /\ last.at = "guard" <=>
                \/ last.pre_lock = NoLock
                \/ ~IsLockActive(last.pre_lock.updatedTime, now)
          /\ last.at # "guard" => Len(last.http) = 1
    /\ last.op = "request" =>
          \A k \in 1..Len(last.http) :
              StartsWith(last.http[k].path, PathLocks) =>
                  /\ last.at = "refresh"
                  /\ last.http[k].method = "post"
    /\ (last.op = "request" /\ last.at = "refresh") =>
          {l \in locks : Key(l) # OwnKey(last.inst)}
              = {l \in last.pre_locks : Key(l) # OwnKey(last.inst)}

\* the holder's request is sent while another client's EXCLUSIVE lock, written
\* after the acquisition, is active
C33_Witness ==
    /\ GuardedRequestSent
    /\ last.at = "send"
    /\ last.http[1].ok
    /\ last.pre_lock \in locks
    /\ \E l \in locks :
          /\ l.type = LockTypeExclusive
          /\ l.clientId = OtherClient
          /\ IsLockActive(l.updatedTime, now)
          /\ l.updatedTime > last.pre_lock.updatedTime

\* the holder's lock is refreshed while the EXCLUSIVE lock is active
C33_RefreshedUnderExclusive ==
    /\ last.op = "request"
    /\ last.at = "refresh"
    /\ last.outcome = "pending"
    /\ ExclusiveActive(locks)

----------------------------------------------------------------------------
(* _delete_own_lock whose delete request fails *)

\* the delete request of _delete_own_lock failed in the step
OwnDeleteFailed ==
    /\ last.at = "delete"
    /\ last.outcome = "HTTPError"
    /\ last.op \in {"sync_lock_exit", "delete_own_lock", "sync_lock", "acquire"}

\* C34 as claimed: when the delete request fails the handle is the one of before.
C34_FailedDeleteKeepsHandle ==
    OwnDeleteFailed => current_sync_lock[last.inst] = last.pre_lock

\* C34, amended: _delete_own_lock clears the handle before it sends the delete
\* request; when the request fails the HTTPError is raised, the handle is None
\* and the store is as before, the record of the client still in it.
C34_FailedDeleteClearsHandle ==
    OwnDeleteFailed =>
        /\ current_sync_lock[last.inst] = NoLock
        /\ locks = last.pre_locks
        /\ last.http = <<Http("delete", OwnLockPath(client_id[last.inst]), FALSE)>>
        /\ pc[last.inst] = "idle"

\* the release of a held lock fails: no handle, and the record stays active
C34_Witness ==
    /\ OwnDeleteFailed
    /\ last.op = "sync_lock_exit"
    /\ last.pre_lock # NoLock
    /\ last.pre_lock \in locks
    /\ IsLockActive(last.pre_lock.updatedTime, now)
    /\ current_sync_lock[last.inst] = NoLock

----------------------------------------------------------------------------
(* The acquisition after the held lock has expired *)

\* the handle the step found is set and past its TTL
ExpiredHandleBefore ==
    /\ last.pre_lock # NoLock
    /\ ~IsLockActive(last.pre_lock.updatedTime, now)

AcquisitionStep == last.op \in {"acquire", "sync_lock"}

\* C35: an acquisition made with a handle past its TTL, the store holding no
\* active EXCLUSIVE lock and no active SYNC lock of the client_id, and its
\* requests being answered: the listing finds the target free and sends no
\* delete; the lock is created, the handle is the new lock (of the time of the
\* creation, the one own record of the store) and lets a guarded request
\* through; the re-check that finds no EXCLUSIVE lock ends the acquisition with
\* that handle.
C35_ReacquireAfterExpiry ==
    /\ (/\ AcquisitionStep
        /\ last.at = "is_locked"
        /\ last.http = <<Http("get", PathLocks, TRUE)>>
        /\ ExpiredHandleBefore
        /\ ~ExclusiveActive(last.pre_locks)
        /\ ~OwnSyncActiveBefore) =>
           /\ last.outcome = "pending"
           /\ pc[last.inst] = "acq_add"
           /\ NoLockState
    /\ (/\ AcquisitionStep
        /\ last.at = "add_lock"
        /\ last.http = <<Http("post", PathLocks, TRUE)>>
        /\ ExpiredHandleBefore) =>
           /\ current_sync_lock[last.inst] = HandleOf(last.inst, now)
           /\ current_sync_lock[last.inst] # last.pre_lock
           /\ OwnRecords(last.inst, locks) = {current_sync_lock[last.inst]}
           /\ Guard(current_sync_lock[last.inst], PathItem, now) = "send"
           /\ pc[last.inst] = "acq_recheck"
    /\ (/\ AcquisitionStep
        /\ last.at = "recheck"
        /\ last.http = <<Http("get", PathLocks, TRUE)>>
        /\ ~ExclusiveActive(last.pre_locks)) =>
           /\ last.outcome \in {"returned", "entered"}
           /\ last.pre_lock # NoLock
           /\ NoLockState
           /\ pc[last.inst] = "idle"

\* the expired record is still in the store when the new lock replaces it
C35_Witness ==
    /\ AcquisitionStep
    /\ last.op = "acquire"
    /\ last.at = "add_lock"
    /\ ExpiredHandleBefore
    /\ last.pre_lock \in last.pre_locks
    /\ last.pre_lock \notin locks
    /\ current_sync_lock[last.inst] = HandleOf(last.inst, now)
    /\ current_sync_lock[last.inst] \in locks

----------------------------------------------------------------------------
(* Two clients modify the same note *)

\* the overrides of the two callers: different fields of the note
ParentOverride == ("parent_id" :> StrV(NotebookC))
TextOverride == ("body" :> StrV(<<"x">>) @@ "title" :> StrV(<<"u">>))

ModifyDataOf(i) == IF i = "a" THEN ParentOverride ELSE TextOverride

\* SpecModify: two clients, each holding its active SYNC lock, run modify_note
\* once on the same note; their requests interleave in every order
InitModify ==
    /\ now = 0
    /\ locks = {MkLock(LockTypeSync, LockClientTypeDesktop, cid, 0) : cid \in ClientIds}
    /\ client_id = [i \in Inst |-> IF i = "a" THEN "X" ELSE "Y"]
    /\ current_sync_lock = [i \in Inst |->
           MkLock(LockTypeSync, LockClientTypeDesktop, client_id[i], 0)]
    /\ pc = [i \in Inst |-> "idle"]
    /\ frame = [i \in Inst |-> ItemIdle(MaxOps - 1)]
    /\ depth = [i \in Inst |-> 1]
    /\ last = NoStep("init")
    /\ items \in ItemStores
    /\ calc = NoCalc

NextModify ==
    \E i \in Inst :
        \/ CallModify(i, "modify_note", NoteId, ModifyDataOf(i))
        \/ \E fails \in BOOLEAN : ModifyGet(i, fails)
        \/ \E status \in {200, 500} : ModifyPut(i, status)

SpecModify == InitModify /\ [][NextModify]_vars

\* the text is a record that has the values of data_
HasOverrides(text, data_) ==
    \E r \in {Deserialize(text)} :
        /\ r.tag = "record"
        /\ \A n \in DOMAIN data_ : n \in DOMAIN r.f /\ r.f[n] = data_[n]

\* every client has ended its operation
BothCompleted == \A i \in Inst : pc[i] = "idle" /\ frame[i].done = MaxOps

\* the put of modify_note of a client returned, the override of the other client
\* being in the store: both operations have completed, both puts were stored
SecondPutReturned ==
    /\ last.op = "modify_note"
    /\ last.at = "modify_put"
    /\ last.outcome = "returned"
    /\ BothCompleted
    /\ \E j \in Inst \ {last.inst} :
          HasOverrides(last.pre_items[AddSuffix(NoteId)], ModifyDataOf(j))

\* C36 as stated: once the modify_note of both clients has completed, the
\* stored note has the overrides of both.
C36_NoLostUpdate ==
    SecondPutReturned =>
        \A i \in Inst : HasOverrides(items[AddSuffix(NoteId)], ModifyDataOf(i))

\* C36: the put of modify_note overwrites the whole note with the record its own
\* get read and its overrides, and nothing else of the store changes; once both
\* operations have completed, the note has the overrides of the client that put
\* last, and the override of the other client exactly when it is in the text
\* that was put, that is when the get came after the other put.
C36_LastPutWins ==
    \E name \in {AddSuffix(NoteId)} :
        /\ (last.op = "modify_note" /\ last.at = "modify_put"
            /\ last.outcome = "returned") =>
               /\ items = ItemPut(last.pre_items, name, last.frame.request_data)
               /\ Deserialize(items[name]).tag = "record" =>
                     HasOverrides(items[name], ModifyDataOf(last.inst))
        /\ SecondPutReturned =>
               /\ HasOverrides(items[name], ModifyDataOf(last.inst))
               /\ \A j \in Inst \ {last.inst} :
                     HasOverrides(items[name], ModifyDataOf(j))
                     <=> HasOverrides(last.frame.request_data, ModifyDataOf(j))

\* the lost update: the second put removed the override the first one stored
C36_Witness ==
    /\ SecondPutReturned
    /\ HasOverrides(items[AddSuffix(NoteId)], ModifyDataOf(last.inst))
    /\ \E j \in Inst \ {last.inst} :
          ~HasOverrides(items[AddSuffix(NoteId)], ModifyDataOf(j))

\* the two operations one after the other: both overrides are in the note
C36_Sequential ==
    /\ SecondPutReturned
    /\ \A i \in Inst : HasOverrides(items[AddSuffix(NoteId)], ModifyDataOf(i))

----------------------------------------------------------------------------
(* add_resource and delete_resource: the two items of a resource *)

\* the metadata item and the blob item of the resource with the id id_
HasMetadataItem(id_) == HasItem(items, AddSuffix(id_))
HasBlobItem(id_) == HasItem(items, ResourceBlobName(id_))

AddResourceEnded ==
    /\ calc.fn = "add"
    /\ calc.call = "add_resource"
    /\ "id" \in DOMAIN calc.record.f

\* C37: add_resource that returned has stored the metadata item and the blob
\* item under its id, and add_resource that raised has left neither of them in
\* the store; after delete_resource the store has both items of the id or
\* neither.
C37_AllOrNothing ==
    /\ AddResourceEnded =>
          \E id_ \in {calc.record.f["id"].v} :
             IF calc.outcome = "returned"
             THEN HasMetadataItem(id_) /\ HasBlobItem(id_)
             ELSE ~HasMetadataItem(id_) /\ ~HasBlobItem(id_)
    /\ calc.fn = "delete_resource" =>
          (HasMetadataItem(calc.id_) <=> HasBlobItem(calc.id_))

\* add_resource raised for a file that cannot be read, after the metadata item
\* was stored
C37_MetadataWithoutBlob ==
    /\ AddResourceEnded
    /\ calc.outcome = "OSError"
    /\ HasMetadataItem(calc.record.f["id"].v)
    /\ ~HasBlobItem(calc.record.f["id"].v)

\* delete_resource raised at its second request: the blob item is left alone
C37_BlobWithoutMetadata ==
    /\ calc.fn = "delete_resource"
    /\ calc.outcome = "HTTPError"
    /\ Len(calc.requests) = 2
    /\ ~HasMetadataItem(calc.id_)
    /\ HasBlobItem(calc.id_)

----------------------------------------------------------------------------
(* get_revisions and delete_all_revisions *)

\* a revision item as the server stores it
RevisionText ==
    Join(<<MetadataLine("id", RevisionId), MetadataLine("item_type", <<"1">>),
           MetadataLine("item_id", NoteId), MetadataLine("type_", <<"13">>)>>, <<NL>>)

\* the stores with a revision item
RevisionStores == {ItemPut(its, AddSuffix(RevisionId), RevisionText) : its \in ItemStores}

\* the revision items a store holds
RevisionItems(its) ==
    {name \in DOMAIN its : EndsWithMd(name) /\ Discriminator(its[name], ItemTypeRevision)}

\* delete_all_revisions: `for revision in self.get_all_revisions()`, from the k-th
\* revision on: assert revision.id is not None; self.delete_revision(revision.id);
\* the request of the place fail_at is answered with an error
RECURSIVE DeleteLoop(_, _, _, _, _)
DeleteLoop(its, found, k, fail_at, sent) ==
    IF k > Len(found) THEN [items |-> its, sent |-> sent, outcome |-> "returned"]
    ELSE IF "id" \notin DOMAIN found[k].f
    THEN [items |-> its, sent |-> sent, outcome |-> "AssertionError"]
    ELSE LET name == AddSuffix(found[k].f["id"].v)
             request == HttpStatus("delete", ItemDeletePath(name),
                                   DeleteStatus(its, name, k = fail_at))
         IN  IF request.ok
             THEN DeleteLoop(ItemDelete(its, name), found, k + 1, fail_at,
                             Append(sent, request))
             ELSE [items |-> its, sent |-> Append(sent, request), outcome |-> "HTTPError"]

\* delete_all_revisions: the call; get_all_revisions() starts with get_revisions
CallDeleteAllRevisions(i) ==
    /\ pc[i] = "idle"
    /\ frame[i].done < MaxOps
    /\ ItemGoOn(i, "call", "list_children",
                [call |-> "delete_all_revisions", sent |-> <<>>, done |-> frame[i].done],
                <<>>)
    /\ UNCHANGED <<now, locks, client_id, current_sync_lock, depth, items, calc>>

\* delete_all_revisions: the loop over the revisions get_all_revisions() returned
DeleteRevisions(i, fail_at) ==
    /\ pc[i] = "delete_revisions"
    /\ LET g == ItemGuard(i, ItemDeletePath(AddSuffix(RevisionId)))
       IN  IF frame[i].found # <<>> /\ Denied(g)
           THEN ItemDenied(i, "delete_revisions", g)
           ELSE \E loop \in {DeleteLoop(items, frame[i].found, 1, fail_at, frame[i].sent)} :
                   /\ IF frame[i].found # <<>> THEN GuardEffect(i, g)
                      ELSE UNCHANGED <<locks, current_sync_lock>>
                   /\ items' = loop.items
                   /\ ItemEnd(i, "delete_revisions", loop.outcome, loop.sent, "none")
    /\ UNCHANGED <<now, client_id, depth, calc>>

\* SpecRevisions: a client that holds its sync lock lists and deletes the
\* revisions of a store that holds one; the listing fits one page
InitRevisions ==
    /\ now = 0
    /\ locks = {MkLock(LockTypeSync, LockClientTypeDesktop, cid, 0) : cid \in ClientIds}
    /\ client_id = [i \in Inst |-> IF i = "a" THEN "X" ELSE "Y"]
    /\ current_sync_lock = [i \in Inst |->
           MkLock(LockTypeSync, LockClientTypeDesktop, client_id[i], 0)]
    /\ pc = [i \in Inst |-> "idle"]
    /\ frame = [i \in Inst |-> ItemIdle(0)]
    /\ depth = [i \in Inst |-> 1]
    /\ last = NoStep("init")
    /\ items \in RevisionStores \cup ItemStores
    /\ calc = NoCalc

NextRevisions ==
    \E i \in ItemClients :
        \/ CallList(i, "get_revisions")
        \/ CallDeleteAllRevisions(i)
        \/ \E status \in {200, 500} : ListChildren(i, status, FALSE, "")
        \/ \E fails \in BOOLEAN : ListItem(i, fails)
        \/ \E fail_at \in 0..1 : DeleteRevisions(i, fail_at)

SpecRevisions == InitRevisions /\ [][NextRevisions]_vars

DeletesSent(http) == {k \in 1..Len(http) : http[k].method = "delete"}

\* C38: get_revisions that returned has one record for every revision item of
\* the store; delete_all_revisions that returned has sent one delete request
\* for every revision item the store held, and the store holds no revision item.
C38_RevisionsReturnedAndDeleted ==
    /\ (last.op = "get_revisions" /\ last.outcome = "returned") =>
           Len(last.result.items) = Cardinality(RevisionItems(items))
    /\ (last.op = "delete_all_revisions" /\ last.outcome = "returned") =>
           /\ Cardinality(DeletesSent(last.http))
                 = Cardinality(RevisionItems(last.pre_items))
           /\ RevisionItems(items) = {}

\* get_revisions returned no record from a store that holds a revision item
C38_NoRevisionReturned ==
    /\ last.op = "get_revisions"
    /\ last.outcome = "returned"
    /\ RevisionItems(items) # {}
    /\ last.result.items = <<>>

\* delete_all_revisions returned, no delete request sent, the revision item
\* still in the store
C38_RevisionLeft ==
    /\ last.op = "delete_all_revisions"
    /\ last.outcome = "returned"
    /\ DeletesSent(last.http) = {}
    /\ AddSuffix(RevisionId) \in RevisionItems(items)

----------------------------------------------------------------------------
(* The termination of _unpaginate *)

\* _unpaginate is a sequential loop: the statement that can run, runs
SpecUnpaginateFair == SpecUnpaginate /\ WF_vars(NextUnpaginate)

\* the query the caller gave
CallerOf == IF calc.fn = "func" THEN calc.query ELSE calc.caller

\* func reports has_more = false on some page, the caller asking for no page of
\* its own
ReportsNoMore ==
    /\ calc.fn \in {"func", "unpaginate"}
    /\ "page" \notin DOMAIN CallerOf
    /\ \E k \in 1..Len(calc.func) : ~calc.func[k].has_more

\* func reports has_more = true on every page, and so for every query
KeepsReportingMore ==
    /\ calc.fn \in {"func", "unpaginate"}
    /\ \A k \in 1..Len(calc.func) : calc.func[k].has_more

\* the loop is at the number of calls the model stops it at
CallsAtCap ==
    /\ calc.fn = "unpaginate"
    /\ calc.page = MaxPage
    /\ Len(calc.queries) = MaxPage
    /\ calc.response.has_more

\* C39: for a func that reports has_more = false on some page, _unpaginate
\* returns, after as many calls of func as there are pages up to and including
\* the first with has_more false; for a func that reports has_more = true on
\* every call it never returns, and the number of its calls grows past the
\* number of pages up to the cap of the model, the loop having no bound of its
\* own.
C39_Termination ==
    /\ ReportsNoMore ~> (calc.fn = "unpaginated")
    /\ []((calc.fn = "unpaginated" /\ "page" \notin DOMAIN calc.caller) =>
             Len(calc.queries) = FirstLastPage(calc.func))
    /\ [](KeepsReportingMore => [](calc.fn # "unpaginated"))
    /\ KeepsReportingMore ~> CallsAtCap

\* returned after three calls
C39_Witness ==
    /\ calc.fn = "unpaginated"
    /\ calc.caller = NoQuery
    /\ HasMoreOf(calc.func) = <<TRUE, TRUE, FALSE>>
    /\ Len(calc.queries) = 3

\* a func of one page that keeps reporting has_more = true: more calls than pages
C39_StillCalling ==
    /\ CallsAtCap
    /\ Len(calc.func) = 1
    /\ Len(calc.queries) > Len(calc.func)

====
